---- MODULE Spec2Model ----
(***************************************************************************)
(* A model of the pass orchestration of masonry's widget tree and of the   *)
(* reactive signal/effect runtime of src/mini/reactive.rs.                 *)
(*                                                                         *)
(* SpecRx   the reactive runtime: signals, effects, untrack, update_widget *)
(* Spec     the test harness driving one window whose root widget is a     *)
(*          RuntimeView: events, the command drain, layout                 *)
(* SpecFocus the same window, with widgets that ask for focus              *)
(* SpecTree the same window, with a tree of widget pods that grows         *)
(* SpecTimer the same window, with widgets that ask for timers             *)
(* SpecPost the same window, with widgets that set the flags the           *)
(*          bookkeeping after a pass looks at                              *)
(* SpecApp  the application root: windows come and go, commands are        *)
(*          dispatched to them                                             *)
(* SpecDriver one window driven as the platform drives it: events,         *)
(*          commands and paint, under both size policies                   *)
(* SpecSizedBox a SizedBox built and laid out under its parent's           *)
(*          constraints                                                    *)
(* SpecAction the harness clicking on the root widget and popping actions  *)
(* SpecSignals the reactive runtime without update_widget                  *)
(* SpecUpdater the updaters boxed by update_widget reaching their widgets  *)
(* SpecPaint the paint pass of a window and its deferred z-ops             *)
(* SpecEvents the harness handing the window events of every kind          *)
(* SpecRender the same, the dispatcher being a WindowRoot or a RenderRoot  *)
(* SpecAnim the window asked to prepare for painting, with widgets that    *)
(*          ask for animation frames                                       *)
(* SpecWindows the application root opening and closing three windows      *)
(* SpecView the window built around a RuntimeView made by RuntimeView::new *)
(* SpecRefocus SpecFocus with focus requests during lifecycle passes       *)
(* SpecReentry the reactive runtime with closures that call deeper         *)
(***************************************************************************)
EXTENDS Integers, Sequences, FiniteSets, TLC

\* ---------------------------------------------------------------- bounds
MaxEffects == 2      \* effects a run may create
MaxOps     == 2      \* calls the closures may make within one top-level call
MaxDeepOps == 4      \* the same, where closures re-enter themselves
MaxCmds    == 1      \* commands a run of the runtime may emit
MaxQueued  == 3      \* commands the widgets of a window may emit in a run
MaxCalls   == 2      \* context calls the widgets may make per harness call
MaxChars   == 1      \* characters typed by one keyboard_type_chars
MaxPods    == 4      \* pods a tree may grow to
MaxAppCmds == 1      \* commands waiting in the application's queue
MaxUpdates == 3      \* updaters queued in a run
MaxZOps    == 3      \* z-ops registered in a paint pass
MaxActions == 2      \* actions the widgets of a window may submit
MaxNow     == 3      \* the latest instant the clock of a window shows
MaxPaints  == 3      \* calls of prepare_paint

SignalKeys == {1, 2}   \* the keys the slot map hands out, in this order
Values     == {0, 1}   \* the values stored in signals
WidgetIds  == {1, 2}
FocusIds   == {1, 2, 3}  \* the widgets that may register for focus or ask for it
TextIds    == {1}        \* the widgets that register a text input session
Tokens     == {1, 2}     \* the timer tokens
WindowIds  == {1, 2}
Mutators   == {"f"}    \* the closures handed to update_widget

\* Option<T>: None is the empty sequence, Some(x) the one-element sequence.
None    == <<>>
Some(x) == <<x>>

VARIABLES
    \* Runtime (src/mini/reactive.rs)
    signals,          \* SlotMap<SignalKey, Signal>: a sequence, key = index
    effects,          \* the Rc<Effect>s created so far: id -> [observers]
    next_effect_id,
    current_effect,   \* Option<EffectId>
    rt_command_queue, \* Runtime::command_queue
    stack,            \* the call stack of closure runs, set loops, untracks
    fuel,             \* calls the closures may still make in this top-level call,
                      \* and how many they may make in one
    \* history of the runtime, read by the properties only
    lastReads,        \* effect id -> signals its latest run read (tracked)
    got,              \* what RwSignal::get returned, if the latest call of the
                      \* runtime was a get: the key and the value
    emitted,          \* number of commands emitted so far
    \* the widget tree as far as mutators touch it
    widget_data,
    \* the widget pods: children of each pod, how many pods the tree was built
    \* with, the pods that are still new, the pods in the order they received
    \* WidgetAdded, and whether a pod was added during this harness call
    pods,
    \* a SizedBox (widget/sized_box.rs): its width and height, and the
    \* constraints its latest layout was given and handed to its child
    sized_box,
    \* the boxed updaters of update_widget (mini/reactive.rs): the concrete
    \* type of each widget, the updaters queued, the mutators invoked, and the
    \* panic that ended the run
    updater,
    \* the paint pass of a window (WindowRoot::paint): where it is, the
    \* z-ops in the context, those taken for replay and those replayed
    paint,
    \* MockAppRoot / WindowRoot (src/testing/harness.rs, app_root.rs)
    command_queue,    \* the dispatcher's CommandQueue
    window,           \* fields of WindowRoot
    root,             \* root.state(): the root pod's WidgetState
    calls,            \* the call stack of the harness and the window
    wfuel,            \* context calls the widgets may still make
    last_handled,     \* what the last WindowRoot::event returned
    \* history of the window, read by the properties only
    delivered,        \* the commands delivered as events during this harness call
    pushed,           \* serials of the commands waiting at the start of this
                      \* harness call and pushed since, in the order of the pushes
    timer_log,        \* what became of the Timer events of this harness call
    \* AppRoot (app_root.rs): the windows it knows, its command queue, the
    \* window that wakes it for external events; and what its last call did
    app,
    \* MockAppRoot::action_queue (src/testing/harness.rs)
    action_queue,
    \* TestHarness: the position of its mouse_state; and history: the number of
    \* actions submitted so far, the actions pop_action has returned, how often
    \* it returned None since it last returned an action (up to 1), what
    \* it returned last, and the new focus of the RouteFocusChanged event its
    \* window dispatched last
    harness

rxVars == <<signals, effects, next_effect_id, current_effect, rt_command_queue,
            stack, fuel, lastReads, got, emitted>>
rxOnlyVars == <<signals, effects, next_effect_id, current_effect, stack, fuel, lastReads, got>>
treeVars == <<widget_data, pods, sized_box, updater, paint>>
winVars == <<command_queue, window, root, calls, wfuel, last_handled, delivered, pushed, timer_log, app, action_queue, harness>>
vars == <<rxVars, treeVars, winVars>>

\* ------------------------------------------------------------ helpers
Range(s) == {s[i] : i \in DOMAIN s}

\* every ordering of a finite set, as sequences
Perms(S) ==
    {p \in [1..Cardinality(S) -> S] : \A i, j \in 1..Cardinality(S) : i # j => p[i] # p[j]}

Top == stack[Len(stack)]
Pop(s) == SubSeq(s, 1, Len(s) - 1)

Frame(kind, eff, old, sig, todo, expected) ==
    [kind |-> kind, eff |-> eff, latest |-> TRUE, old |-> old,
     sig |-> sig, todo |-> todo, expected |-> expected, invoked |-> <<>>,
     written |-> {}, reads |-> {}]

\* User code is executing: at top level (inside Runtime::as_current), or in
\* an effect's closure, or in the closure given to untrack.
UserCode ==
    \/ stack = <<>>
    \/ /\ stack # <<>>
       /\ Top.kind \in {"effect", "untrack"}
       /\ fuel.left > 0

\* a closure has made one more call; calls of the top-level code are not counted
Spend == IF stack = <<>> THEN fuel ELSE [fuel EXCEPT !.left = @ - 1]

\* back at top level the count starts again
Refuel(s) == IF s = <<>> THEN [fuel EXCEPT !.left = fuel.ops] ELSE fuel

\* the effect whose latest run is executing the current tracked user code
Reader ==
    IF stack # <<>> /\ Top.kind = "effect" /\ Top.latest THEN Some(Top.eff) ELSE None

\* ---------------------------------------------------- commands
\* the serial of the command whose delivery is being handled, 0 if none
Handling ==
    LET fs == {i \in DOMAIN calls : calls[i].ev.kind = "TargetedCommand"}
    IN IF fs = {} THEN 0
       ELSE calls[CHOOSE i \in fs : \A j \in fs : j <= i].ev.arg[1].serial

\* Command::new; serial and cause are history: the how-manieth command this
\* is, and which command's handling emitted it
Command(selector, payload, target) ==
    [selector |-> selector, payload |-> payload, target |-> target,
     serial |-> emitted + 1, cause |-> Handling]

WidgetTarget(id) == <<"Widget", id>>

\* Runtime::push_command
push_command(queue, command) == Append(queue, command)

\* what running the mutator f on widget widget_id does to the tree
run_mutator(data, widget_id, f) == [data EXCEPT ![widget_id] = Append(@, f)]

\* a slip of update_widget: the mutator is run on the widget at once
update_widget_at_once(widget_id, f) ==
    /\ widget_data' = run_mutator(widget_data, widget_id, f)
    /\ emitted' = emitted + 1
    /\ UNCHANGED <<signals, effects, next_effect_id, current_effect, lastReads,
                   rt_command_queue, pods, sized_box, updater, paint>>
    /\ got' = None

\* update_widget / update_widget_state: box the mutator, push one command
update_widget(widget_id, f) ==
    /\ rt_command_queue' =
           push_command(rt_command_queue, Command("UPDATE_WIDGET", f, WidgetTarget(widget_id)))
    /\ emitted' = emitted + 1
    /\ UNCHANGED <<signals, effects, next_effect_id, current_effect, lastReads>>
    /\ got' = None
    /\ UNCHANGED treeVars

\* ---------------------------------------------------- the updaters
\* the concrete widget types and the type every widget has in the runs that
\* queue no ill-typed updater
WidgetTypes == {"SizedBox", "Stack"}
NoMismatch == [id \in WidgetIds |-> "SizedBox"]

\* no updater queued yet for a tree whose widgets have the given types
Updater_new(widgets) ==
    [widgets |-> widgets, queue |-> <<>>, invoked |-> <<>>, panic |-> None, queued |-> 0]

\* no paint pass is running
NotPainting ==
    [pc |-> "idle", painted |-> <<>>, z_ops |-> <<>>, taken |-> <<>>, replayed |-> <<>>,
     registered |-> 0, in_tree |-> 0]

\* ---------------------------------------------------- signals
\* create_rw_signal
create_rw_signal(value) ==
    signals' = Append(signals, [value |-> value, subscribers |-> {}])

\* a slip of RwSignal::get: a read inside untrack subscribes the effect that
\* called untrack
get_signals_through_untrack(key) ==
    IF current_effect # None
    THEN [signals EXCEPT ![key].subscribers = @ \cup {current_effect[1]}]
    ELSE IF stack # <<>> /\ Top.kind = "untrack" /\ Top.old # None
         THEN [signals EXCEPT ![key].subscribers = @ \cup {Top.old[1]}]
         ELSE signals

\* RwSignal::get: subscribe the current effect, if any
get_signals(key) ==
    IF current_effect # None
    THEN [signals EXCEPT ![key].subscribers = @ \cup {current_effect[1]}]
    ELSE signals

\* a slip of RwSignal::get: the signal is not pushed on the effect's observers
get_effects_unrecorded(key) == effects

get_effects(key) ==
    IF current_effect # None
    THEN [effects EXCEPT ![current_effect[1]].observers = @ \cup {key}]
    ELSE effects

\* RwSignal::get, line 225: a clone of the value the signal holds
get_value(key) == signals[key].value

\* a slip of RwSignal::set: the subscribers are run on the value the signal held
set_store_skipped(key, new_value) == signals

\* RwSignal::set, first block: store the value
set_store(key, new_value) == [signals EXCEPT ![key].value = new_value]

\* RwSignal::set, first block: the subscribers cloned out of the HashMap, in
\* the map's iteration order (any order)
set_snapshot(key) == Perms(signals[key].subscribers)

\* a slip of Effect::run: the old subscriptions are left in the signals
run_unsubscribe_kept(e) == signals

\* Effect::run, first block: remove the effect from all signals it observes
run_unsubscribe(e) ==
    [k \in DOMAIN signals |->
        IF k \in effects[e].observers
        THEN [signals[k] EXCEPT !.subscribers = @ \ {e}]
        ELSE signals[k]]

\* Effect::run, line 257: the slot while the closure runs
run_current(e) == Some(e)

\* Effect::run, line 259: the slot after the closure returned
run_finished(e) == None

\* frames of earlier, still unfinished runs of e are no longer its latest run
Outdate(s, e) ==
    [i \in DOMAIN s |->
        IF s[i].kind = "effect" /\ s[i].eff = e THEN [s[i] EXCEPT !.latest = FALSE] ELSE s[i]]

\* history: the unfinished calls of set on key learn that v was written to it
Written(s, key, v) ==
    [i \in DOMAIN s |->
        IF s[i].kind = "set" /\ s[i].sig = key THEN [s[i] EXCEPT !.written = @ \cup {v}] ELSE s[i]]

\* ---------------------------------------------------- actions of SpecRx
Call_create_rw_signal ==
    /\ UserCode
    /\ Len(signals) < Cardinality(SignalKeys)
    /\ \E v \in Values : create_rw_signal(v)
    /\ fuel' = Spend
    /\ UNCHANGED <<effects, next_effect_id, current_effect, rt_command_queue, stack,
                   lastReads, emitted>>
    /\ got' = None
    /\ UNCHANGED treeVars
    /\ UNCHANGED winVars

Call_get ==
    /\ UserCode
    /\ \E key \in DOMAIN signals :
        /\ signals' = get_signals(key)
        /\ effects' = get_effects(key)
        /\ got' = Some(<<key, get_value(key)>>)
        /\ stack' = IF stack # <<>> /\ Top.kind = "effect"
                    THEN [stack EXCEPT ![Len(stack)].reads = @ \cup {key}]
                    ELSE stack
        /\ lastReads' = IF Reader # None
                        THEN [lastReads EXCEPT ![Reader[1]] = @ \cup {key}]
                        ELSE lastReads
    /\ fuel' = Spend
    /\ UNCHANGED <<next_effect_id, current_effect, rt_command_queue, emitted>>
    /\ UNCHANGED treeVars
    /\ UNCHANGED winVars

\* RwSignal::set up to the for loop
Call_set ==
    /\ UserCode
    /\ \E key \in DOMAIN signals, v \in Values :
        /\ signals' = set_store(key, v)
        /\ \E subs \in set_snapshot(key) :
              stack' = Append(Written(stack, key, v),
                              [Frame("set", 0, None, key, subs,
                                     {e \in DOMAIN effects : key \in lastReads[e]})
                                  EXCEPT !.written = {v}])
    /\ fuel' = Spend
    /\ UNCHANGED <<effects, next_effect_id, current_effect, rt_command_queue,
                   lastReads, emitted>>
    /\ got' = None
    /\ UNCHANGED treeVars
    /\ UNCHANGED winVars

\* the for loop of RwSignal::set: subscriber.run(runtime), up to the call of
\* the closure
Set_run_subscriber ==
    /\ stack # <<>>
    /\ Top.kind = "set"
    /\ Top.todo # <<>>
    /\ LET e == Head(Top.todo) IN
        /\ signals' = run_unsubscribe(e)
        /\ effects' = [effects EXCEPT ![e].observers = {}]
        /\ current_effect' = run_current(e)
        /\ lastReads' = [lastReads EXCEPT ![e] = {}]
        /\ stack' = Append(
               Outdate([stack EXCEPT ![Len(stack)].todo = Tail(@),
                                     ![Len(stack)].invoked = Append(@, e)], e),
               Frame("effect", e, None, 0, <<>>, {}))
    /\ UNCHANGED <<next_effect_id, rt_command_queue, fuel, emitted>>
    /\ UNCHANGED treeVars
    /\ got' = None
    /\ UNCHANGED winVars

\* the closure of an effect returns: Effect::run, line 259
Effect_return ==
    /\ stack # <<>>
    /\ Top.kind = "effect"
    /\ current_effect' = run_finished(Top.eff)
    /\ stack' = Pop(stack)
    /\ fuel' = Refuel(Pop(stack))
    /\ UNCHANGED <<signals, effects, next_effect_id, rt_command_queue,
                   lastReads, emitted>>
    /\ got' = None
    /\ UNCHANGED treeVars
    /\ UNCHANGED winVars

\* RwSignal::set returns once every subscriber of the snapshot was run
Set_return ==
    /\ stack # <<>>
    /\ Top.kind = "set"
    /\ Top.todo = <<>>
    /\ stack' = Pop(stack)
    /\ fuel' = Refuel(Pop(stack))
    /\ UNCHANGED <<signals, effects, next_effect_id, current_effect, rt_command_queue,
                   lastReads, emitted>>
    /\ got' = None
    /\ UNCHANGED treeVars
    /\ UNCHANGED winVars

\* create_effect: allocate the effect and run it once
Call_create_effect ==
    /\ UserCode
    /\ next_effect_id < MaxEffects
    /\ LET e == next_effect_id IN
        /\ next_effect_id' = e + 1
        /\ effects' = [i \in 0..e |-> IF i = e THEN [observers |-> {}] ELSE effects[i]]
        /\ lastReads' = [i \in 0..e |-> IF i = e THEN {} ELSE lastReads[i]]
        /\ current_effect' = run_current(e)
        /\ stack' = Append(stack, Frame("effect", e, None, 0, <<>>, {}))
    /\ fuel' = Spend
    /\ UNCHANGED <<signals, rt_command_queue, emitted>>
    /\ UNCHANGED treeVars
    /\ got' = None
    /\ UNCHANGED winVars

\* untrack: take the current effect out of the slot, call f
Call_untrack ==
    /\ UserCode
    /\ stack' = Append(stack, Frame("untrack", 0, current_effect, 0, <<>>, {}))
    /\ current_effect' = None
    /\ fuel' = Spend
    /\ UNCHANGED <<signals, effects, next_effect_id, rt_command_queue,
                   lastReads, emitted>>
    /\ got' = None
    /\ UNCHANGED treeVars
    /\ UNCHANGED winVars

\* untrack: f returned, put the old effect back
Untrack_return ==
    /\ stack # <<>>
    /\ Top.kind = "untrack"
    /\ current_effect' = Top.old
    /\ stack' = Pop(stack)
    /\ fuel' = Refuel(Pop(stack))
    /\ UNCHANGED <<signals, effects, next_effect_id, rt_command_queue,
                   lastReads, emitted>>
    /\ got' = None
    /\ UNCHANGED treeVars
    /\ UNCHANGED winVars

Call_update_widget ==
    /\ UserCode
    /\ emitted < MaxCmds
    /\ \E id \in WidgetIds, f \in Mutators : update_widget(id, f)
    /\ fuel' = Spend
    /\ UNCHANGED stack
    /\ UNCHANGED winVars

\* Runtime::new, with no closure running; ops: the calls the closures may make
\* within one top-level call
InitRxWith(ops) ==
    /\ signals = <<>>
    /\ effects = <<>>
    /\ next_effect_id = 0
    /\ current_effect = None
    /\ rt_command_queue = <<>>
    /\ stack = <<>>
    /\ got = None
    /\ fuel = [left |-> ops, ops |-> ops]
    /\ lastReads = <<>>
    /\ emitted = 0

InitRx == InitRxWith(MaxOps)

\* the pods of a tree that was just built: none has received WidgetAdded
NewPods(children) ==
    [children |-> children, built |-> Len(children), new |-> DOMAIN children,
     added |-> <<>>, grew |-> FALSE]

\* SizedBox::new: a box with a child, neither width nor height set, not
\* laid out yet
SizedBox_new == [width |-> None, height |-> None, bc |-> None, child_bc |-> None]

\* a RuntimeView with the widget it wraps
InitTree ==
    /\ widget_data = [id \in WidgetIds |-> <<>>]
    /\ pods = NewPods(<<<<2>>, <<>>>>)
    /\ sized_box = SizedBox_new
    /\ updater = Updater_new(NoMismatch)
    /\ paint = NotPainting

\* the trees of up to three pods, below the root pod 1
Shapes ==
    {<<<<>>>>,
     <<<<2>>, <<>>>>,
     <<<<2, 3>>, <<>>, <<>>>>,
     <<<<3, 2>>, <<>>, <<>>>>,
     <<<<2>>, <<3>>, <<>>>>,
     <<<<3>>, <<>>, <<2>>>>}


NextRx ==
    \/ Call_create_rw_signal
    \/ Call_get
    \/ Call_set
    \/ Set_run_subscriber
    \/ Effect_return
    \/ Set_return
    \/ Call_create_effect
    \/ Call_untrack
    \/ Untrack_return
    \/ Call_update_widget


\* ======================================================== the window
\* ---------------------------------------------------- sizes and constraints
\* f64::INFINITY, as far as the sizes of the model go
Infinity == 1000

\* Size::ZERO, Point::ORIGIN
ZERO == <<0, 0>>
ORIGIN == <<0, 0>>

\* the window sizes the platform reports and the sizes a root widget takes
Sizes == {<<0, 0>>, <<1, 1>>, <<2, 1>>}

\* the size the harness gives its window
window_size == <<2, 1>>

\* what the window handle may report as content insets: added width and height
Insets == {<<0, 0>>, <<1, 0>>}

\* BoxConstraints::tight, BoxConstraints::UNBOUNDED
tight(size) == [min |-> size, max |-> size]
UNBOUNDED == [min |-> ZERO, max |-> <<Infinity, Infinity>>]

\* a slip of WindowRoot::layout: the window size binds the root under both policies
root_constraints_tight(policy, size) == tight(size)

\* WindowRoot::layout: the constraints the root is laid out with
root_constraints(policy, size) ==
    IF policy = "User" THEN tight(size) ELSE UNBOUNDED

\* the sizes root.layout may return under bc
ContentSizes(bc) ==
    {s \in Sizes \cup {bc.min} :
        /\ bc.min[1] <= s[1] /\ s[1] <= bc.max[1]
        /\ bc.min[2] <= s[2] /\ s[2] <= bc.max[2]}

\* (content_size.to_rect() + insets).size()
full_size(content, insets) == <<content[1] + insets[1], content[2] + insets[2]>>

\* WindowRoot::layout after root.layout returned content: under the Content
\* policy the window takes the full size, and the handle is told if it changed
sized_to_content(w, content, insets) ==
    IF w.size_policy = "Content" /\ w.size # full_size(content, insets)
    THEN [w EXCEPT !.size = full_size(content, insets),
                   !.set_size = Some(full_size(content, insets))]
    ELSE w

\* ---------------------------------------------------- events and frames
Ev(kind, arg) == [kind |-> kind, arg |-> arg]
NoEvent == Ev("none", <<>>)

\* the external events the harness injects with process_event
HarnessEvents == {"MouseDown"}

\* the events the platform hands to do_window_event once the window is connected
DriverEvents == {Ev("WindowSize", <<size>>) : size \in Sizes} \cup {Ev("MouseDown", <<ORIGIN>>)}

\* events that reach the window from outside, not from the command drain
IsExternal(ev) == ev.kind \notin {"TargetedCommand", "none"}

\* WidgetState::new: the accumulator a pass starts with
FreshState ==
    [children_changed |-> FALSE, request_focus |-> None, text_registrations |-> {},
     timers |-> <<>>]

CallFrame(fn, pc, ev) ==
    [fn |-> fn, pc |-> pc, ev |-> ev, ws |-> FreshState, is_handled |-> FALSE,
     stale |-> FALSE, n |-> 0, req |-> None, old |-> None, new |-> None, sent |-> <<>>,
     bc |-> None, content |-> None]

\* a call of MockAppRoot::event; stale records whether mutators were waiting
EventFrame(ev) ==
    [CallFrame("event", "start", ev) EXCEPT
        !.stale = \E c \in Range(command_queue) \cup Range(rt_command_queue) :
                     c.selector = "UPDATE_WIDGET"]

LifecycleFrame(ev) == CallFrame("lifecycle", "start", ev)
LayoutFrame == CallFrame("layout", "start", NoEvent)
PostFrame(ws) == [CallFrame("post_event_processing", "children", NoEvent) EXCEPT !.ws = ws]

CTop == calls[Len(calls)]
At(fn, pc) == calls # <<>> /\ CTop.fn = fn /\ CTop.pc = pc
Goto(pc) == [calls EXCEPT ![Len(calls)].pc = pc]
Call(s, frame) == Append(s, frame)
Return == SubSeq(calls, 1, Len(calls) - 1)

\* post_event_processing calls self.lifecycle(event) and goes on at pc; sent
\* keeps the events this run has dispatched
Dispatch(pc, ev) ==
    Call([calls EXCEPT ![Len(calls)].pc = pc, ![Len(calls)].sent = Append(@, ev.kind)],
         LifecycleFrame(ev))

Serials(queue) == [i \in DOMAIN queue |-> queue[i].serial]

\* a slip of flush_commands: the local queue goes in front of the commands
\* that are waiting
flush_commands_in_front(queue, local) == local \o queue

\* Runtime::flush_commands: the local queue is drained onto the dispatcher's
flush_commands(queue, local) == queue \o local

\* a slip of the drain: the newest command is taken first
pop_back(queue) == [cmd |-> queue[Len(queue)], rest |-> SubSeq(queue, 1, Len(queue) - 1)]

\* VecDeque::pop_front on the dispatcher's queue
pop_front(queue) == [cmd |-> Head(queue), rest |-> Tail(queue)]

\* ---------------------------------------------------- the harness
\* TestHarness::process_event: mock_app.event(event), then the drain
process_event(ev) ==
    <<CallFrame("process_event", "after", ev), EventFrame(ev)>>

\* TestHarness::create_with, after the window was built
Create_with ==
    /\ calls # <<>>
    /\ CTop.fn = "create_with"
    /\ calls' = CASE CTop.pc = "connect" -> Goto("size") \o process_event(Ev("WindowConnected", <<>>))
                  [] CTop.pc = "size" -> Goto("done") \o process_event(Ev("WindowSize", <<window_size>>))
                  [] OTHER -> Return
    /\ wfuel' = MaxCalls
    /\ UNCHANGED <<command_queue, window, root, last_handled>>
    /\ delivered' = <<>>
    /\ pushed' = Serials(command_queue)
    /\ timer_log' = <<>>
    /\ UNCHANGED <<app, action_queue, harness>>
    /\ pods' = [pods EXCEPT !.grew = FALSE]
    /\ UNCHANGED <<rxVars, widget_data, sized_box, updater, paint>>

Harness_process_event ==
    /\ calls = <<>>
    /\ \E kind \in HarnessEvents : calls' = process_event(Ev(kind, <<harness.mouse_pos>>))
    /\ wfuel' = MaxCalls
    /\ UNCHANGED <<command_queue, window, root, last_handled>>
    /\ delivered' = <<>>
    /\ pushed' = Serials(command_queue)
    /\ timer_log' = <<>>
    /\ UNCHANGED <<app, action_queue, harness>>
    /\ pods' = [pods EXCEPT !.grew = FALSE]
    /\ UNCHANGED <<rxVars, widget_data, sized_box, updater, paint>>

\* process_event: the event returned, run process_state_after_event
Process_event_after ==
    /\ At("process_event", "after")
    /\ calls' = Call(Goto("ret"), CallFrame("process_state_after_event", "loop", NoEvent))
    /\ UNCHANGED <<command_queue, window, root, wfuel, last_handled, delivered, pushed, timer_log, app, action_queue, harness>>
    /\ UNCHANGED <<rxVars, treeVars>>

Process_event_return ==
    /\ At("process_event", "ret")
    /\ calls' = Return
    /\ UNCHANGED <<command_queue, window, root, wfuel, last_handled, delivered, pushed, timer_log, app, action_queue, harness>>
    /\ UNCHANGED <<rxVars, treeVars>>

\* one turn of the loop of process_state_after_event
Drain_loop ==
    /\ At("process_state_after_event", "loop")
    /\ IF command_queue # <<>>
       THEN /\ command_queue' = pop_front(command_queue).rest
            /\ calls' = Call(calls, EventFrame(Ev("TargetedCommand",
                                                  <<pop_front(command_queue).cmd>>)))
       ELSE /\ calls' = Goto("layout")
            /\ UNCHANGED command_queue
    /\ UNCHANGED <<window, root, wfuel, last_handled, delivered, pushed, timer_log, app, action_queue, harness>>
    /\ UNCHANGED <<rxVars, treeVars>>

\* process_state_after_event, after the loop: lay out if the root asks for it
Drain_layout ==
    /\ At("process_state_after_event", "layout")
    /\ calls' = IF root.needs_layout THEN Call(Goto("ret"), LayoutFrame) ELSE Goto("ret")
    /\ UNCHANGED <<command_queue, window, root, wfuel, last_handled, delivered, pushed, timer_log, app, action_queue, harness>>
    /\ UNCHANGED <<rxVars, treeVars>>

Drain_return ==
    /\ At("process_state_after_event", "ret")
    /\ calls' = Return
    /\ UNCHANGED <<command_queue, window, root, wfuel, last_handled, delivered, pushed, timer_log, app, action_queue, harness>>
    /\ UNCHANGED <<rxVars, treeVars>>

\* TestHarness::keyboard_type_chars(text), n the number of characters of text
Harness_keyboard_type_chars ==
    /\ calls = <<>>
    /\ \E n \in 0..MaxChars :
          calls' = <<[CallFrame("keyboard_type_chars",
                                IF n = 0 THEN "after" ELSE "key_down", NoEvent) EXCEPT !.n = n]>>
    /\ wfuel' = MaxCalls
    /\ UNCHANGED <<command_queue, window, root, last_handled>>
    /\ delivered' = <<>>
    /\ pushed' = Serials(command_queue)
    /\ timer_log' = <<>>
    /\ UNCHANGED <<app, action_queue, harness>>
    /\ pods' = [pods EXCEPT !.grew = FALSE]
    /\ UNCHANGED <<rxVars, widget_data, sized_box, updater, paint>>

\* the timer tokens the mock timer queue may hand out as due, in any order
DueTokens == UNION {Perms(S) : S \in SUBSET Tokens}

\* TestHarness::move_timers_forward: the tokens that are due
Harness_move_timers_forward ==
    /\ calls = <<>>
    /\ \E tokens \in DueTokens :
          calls' = <<CallFrame("move_timers_forward", "loop", Ev("tokens", tokens))>>
    /\ wfuel' = MaxCalls
    /\ UNCHANGED <<command_queue, window, root, last_handled>>
    /\ delivered' = <<>>
    /\ pushed' = Serials(command_queue)
    /\ timer_log' = <<>>
    /\ UNCHANGED <<app, action_queue, harness>>
    /\ pods' = [pods EXCEPT !.grew = FALSE]
    /\ UNCHANGED <<rxVars, widget_data, sized_box, updater, paint>>

\* move_timers_forward: process_event(Event::Timer(token)) for each due token
Timers_loop ==
    /\ At("move_timers_forward", "loop")
    /\ calls' = IF CTop.ev.arg = <<>>
                THEN Return
                ELSE [calls EXCEPT ![Len(calls)].ev.arg = Tail(@)]
                     \o process_event(Ev("Timer", <<Head(CTop.ev.arg)>>))
    /\ UNCHANGED <<command_queue, window, root, wfuel, last_handled, delivered, pushed, timer_log, app, action_queue, harness>>
    /\ UNCHANGED <<rxVars, treeVars>>

\* the widget with focus has an input-method session the harness can lock
focused_ime_handler ==
    IF window.focus # None /\ window.focus[1] \in window.ime_handlers
    THEN window.focus
    ELSE None

Type_key_down ==
    /\ At("keyboard_type_chars", "key_down")
    /\ calls' = Call(Goto("ime"), EventFrame(Ev("KeyDown", <<>>)))
    /\ UNCHANGED <<command_queue, window, root, wfuel, last_handled, delivered, pushed, timer_log, app, action_queue, harness>>
    /\ UNCHANGED <<rxVars, treeVars>>

\* KeyDown was not handled: edit the focused text field and tell its widget
Type_ime ==
    /\ At("keyboard_type_chars", "ime")
    /\ calls' = IF ~last_handled /\ focused_ime_handler # None
                THEN Call(Goto("key_up"),
                          EventFrame(Ev("RouteImeStateChange", focused_ime_handler)))
                ELSE Goto("key_up")
    /\ UNCHANGED <<command_queue, window, root, wfuel, last_handled, delivered, pushed, timer_log, app, action_queue, harness>>
    /\ UNCHANGED <<rxVars, treeVars>>

Type_key_up ==
    /\ At("keyboard_type_chars", "key_up")
    /\ calls' = Call([calls EXCEPT ![Len(calls)].n = @ - 1,
                                   ![Len(calls)].pc = IF CTop.n = 1 THEN "after" ELSE "key_down"],
                     EventFrame(Ev("KeyUp", <<>>)))
    /\ UNCHANGED <<command_queue, window, root, wfuel, last_handled, delivered, pushed, timer_log, app, action_queue, harness>>
    /\ UNCHANGED <<rxVars, treeVars>>

Type_after ==
    /\ At("keyboard_type_chars", "after")
    /\ calls' = Call(Goto("ret"), CallFrame("process_state_after_event", "loop", NoEvent))
    /\ UNCHANGED <<command_queue, window, root, wfuel, last_handled, delivered, pushed, timer_log, app, action_queue, harness>>
    /\ UNCHANGED <<rxVars, treeVars>>

Type_return ==
    /\ At("keyboard_type_chars", "ret")
    /\ calls' = Return
    /\ UNCHANGED <<command_queue, window, root, wfuel, last_handled, delivered, pushed, timer_log, app, action_queue, harness>>
    /\ UNCHANGED <<rxVars, treeVars>>

\* ---------------------------------------------------- mouse and actions
\* where the harness may move its mouse: over the root widget and off it
Points == {<<1, 0>>, <<5, 5>>}

\* Rect::center of the rectangle of the given size at the origin, in whole units
rect_center(size) == <<size[1] \div 2, size[2] \div 2>>

\* a harness call begins: the fuel of the widgets and the history of the call
HarnessCall(frames) ==
    /\ calls = <<>>
    /\ calls' = frames
    /\ wfuel' = MaxCalls
    /\ delivered' = <<>>
    /\ pushed' = Serials(command_queue)
    /\ timer_log' = <<>>
    /\ pods' = [pods EXCEPT !.grew = FALSE]
    /\ UNCHANGED <<command_queue, window, root, last_handled, app>>
    /\ UNCHANGED <<rxVars, widget_data, sized_box, updater, paint>>

\* TestHarness::mouse_move(pos)
Harness_mouse_move ==
    \E pos \in Points :
        /\ HarnessCall(process_event(Ev("MouseMove", <<pos>>)))
        /\ harness' = [harness EXCEPT !.mouse_pos = pos]
        /\ UNCHANGED action_queue

\* TestHarness::mouse_click_on(id) for the root widget; n keeps the number of
\* actions submitted before the call
Harness_mouse_click_on ==
    /\ harness.submitted < MaxActions
    /\ HarnessCall(<<[CallFrame("mouse_click_on", "move", NoEvent) EXCEPT
                         !.n = harness.submitted]>>)
    /\ UNCHANGED <<action_queue, harness>>

\* mouse_click_on: mouse_move(widget_center)
Click_move ==
    /\ At("mouse_click_on", "move")
    /\ harness' = [harness EXCEPT !.mouse_pos = rect_center(root.size)]
    /\ calls' = Goto("press") \o process_event(Ev("MouseMove", <<rect_center(root.size)>>))
    /\ UNCHANGED <<command_queue, window, root, wfuel, last_handled, delivered, pushed, timer_log, app, action_queue>>
    /\ UNCHANGED <<rxVars, treeVars>>

\* mouse_click_on: mouse_button_press(MouseButton::Left)
Click_press ==
    /\ At("mouse_click_on", "press")
    /\ calls' = Goto("release") \o process_event(Ev("MouseDown", <<harness.mouse_pos>>))
    /\ UNCHANGED <<command_queue, window, root, wfuel, last_handled, delivered, pushed, timer_log, app, action_queue, harness>>
    /\ UNCHANGED <<rxVars, treeVars>>

\* mouse_click_on: mouse_button_release(MouseButton::Left)
Click_release ==
    /\ At("mouse_click_on", "release")
    /\ calls' = Goto("ret") \o process_event(Ev("MouseUp", <<harness.mouse_pos>>))
    /\ UNCHANGED <<command_queue, window, root, wfuel, last_handled, delivered, pushed, timer_log, app, action_queue, harness>>
    /\ UNCHANGED <<rxVars, treeVars>>

Click_return ==
    /\ At("mouse_click_on", "ret")
    /\ calls' = Return
    /\ UNCHANGED <<command_queue, window, root, wfuel, last_handled, delivered, pushed, timer_log, app, action_queue, harness>>
    /\ UNCHANGED <<rxVars, treeVars>>

\* what pop_action hands out of an entry of the queue
popped_action(entry) == <<entry.action, entry.widget_id>>

\* a slip of pop_action: the action is handed out and stays in the queue
pop_action_kept(queue) ==
    IF queue = <<>>
    THEN [result |-> None, rest |-> queue]
    ELSE [result |-> Some(popped_action(Head(queue))), rest |-> queue]

\* TestHarness::pop_action: the front of the queue, None if there is none
pop_action(queue) ==
    IF queue = <<>>
    THEN [result |-> None, rest |-> queue]
    ELSE [result |-> Some(popped_action(pop_front(queue).cmd)), rest |-> pop_front(queue).rest]

Harness_pop_action ==
    /\ calls = <<>>
    /\ action_queue' = pop_action(action_queue).rest
    /\ harness' = [harness EXCEPT
                      !.last_pop = pop_action(action_queue).result,
                      !.pops = IF pop_action(action_queue).result = None THEN 1 ELSE 0,
                      !.popped = IF action_queue = <<>> THEN @
                                 ELSE Append(@, Head(action_queue).serial)]
    /\ UNCHANGED <<command_queue, window, root, calls, wfuel, last_handled, delivered, pushed, timer_log, app>>
    /\ UNCHANGED <<rxVars, treeVars>>

\* the actions a widget other than a button may submit
Actions == {"TextChanged"}

\* ---------------------------------------------------- WindowRoot::event
\* a slip of the match: Wheel is not among the mouse events
event_derived_without_wheel(w, ev) ==
    CASE ev.kind = "WindowSize" -> [w EXCEPT !.size = ev.arg[1]]
      [] ev.kind \in {"MouseDown", "MouseUp", "MouseMove"} ->
            [w EXCEPT !.last_mouse_pos = Some(ev.arg[1])]
      [] ev.kind = "MouseLeave" -> [w EXCEPT !.last_mouse_pos = None]
      [] OTHER -> w

\* the window state derived from the event, before anything is dispatched
event_derived(w, ev) ==
    CASE ev.kind = "WindowSize" -> [w EXCEPT !.size = ev.arg[1]]
      [] ev.kind \in {"MouseDown", "MouseUp", "MouseMove", "Wheel"} ->
            [w EXCEPT !.last_mouse_pos = Some(ev.arg[1])]
      [] ev.kind = "MouseLeave" -> [w EXCEPT !.last_mouse_pos = None]
      [] OTHER -> w

\* a slip of the rewrite: a Timer event nobody owns is passed on as it is
event_rewritten_anyway(timers, ev) ==
    IF ev.kind = "Timer" /\ ev.arg[1] \in DOMAIN timers
    THEN Some(Ev("RouteTimer", <<ev.arg[1], timers[ev.arg[1]]>>))
    ELSE Some(ev)

\* WindowRoot::event: a Timer event becomes RouteTimer to the widget that owns
\* the token; None if nobody owns it
event_rewritten(timers, ev) ==
    IF ev.kind = "Timer"
    THEN (IF ev.arg[1] \in DOMAIN timers
          THEN Some(Ev("RouteTimer", <<ev.arg[1], timers[ev.arg[1]]>>))
          ELSE None)
    ELSE Some(ev)

\* what timer_log keeps of a Timer event: its token and the owner found
logged(log, timers, ev) ==
    IF ev.kind = "Timer"
    THEN Append(log, [token |-> ev.arg[1],
                      owner |-> IF ev.arg[1] \in DOMAIN timers
                                THEN Some(timers[ev.arg[1]]) ELSE None])
    ELSE log

\* a slip of WindowRoot::event: WindowConnected goes to the root at once
Event_start_unprepared ==
    /\ At("event", "start")
    /\ window' = event_derived(window, CTop.ev)
    /\ timer_log' = logged(timer_log, window.timers, CTop.ev)
    /\ UNCHANGED <<app, action_queue, harness>>
    /\ LET ev == event_rewritten(window.timers, CTop.ev) IN
         IF ev = None
         THEN /\ calls' = Return
              /\ last_handled' = FALSE
         ELSE /\ calls' = [calls EXCEPT ![Len(calls)].pc = "deliver",
                                        ![Len(calls)].ev = ev[1]]
              /\ UNCHANGED last_handled
    /\ UNCHANGED <<command_queue, root, wfuel, delivered, pushed>>
    /\ UNCHANGED <<rxVars, treeVars>>

\* WindowRoot::event up to the root's on_event
Event_start ==
    /\ At("event", "start")
    /\ window' = event_derived(window, CTop.ev)
    /\ timer_log' = logged(timer_log, window.timers, CTop.ev)
    /\ UNCHANGED <<app, action_queue, harness>>
    /\ LET ev == event_rewritten(window.timers, CTop.ev) IN
         IF ev = None
         THEN /\ calls' = Return
              /\ last_handled' = FALSE
         ELSE /\ calls' =
                   LET rewritten == [calls EXCEPT ![Len(calls)].pc = "deliver",
                                                  ![Len(calls)].ev = ev[1]]
                   IN IF ev[1].kind = "WindowConnected"
                      THEN Call(rewritten, LifecycleFrame(Ev("RouteWidgetAdded", <<>>)))
                      ELSE rewritten
              /\ UNCHANGED last_handled
    /\ UNCHANGED <<command_queue, root, wfuel, delivered, pushed>>
    /\ UNCHANGED <<rxVars, treeVars>>

\* the widget a targeted UPDATE_WIDGET command reaches runs the mutator
deliver_data(data, ev) ==
    IF ev.kind = "TargetedCommand" /\ ev.arg[1].selector = "UPDATE_WIDGET"
    THEN run_mutator(data, ev.arg[1].target[2], ev.arg[1].payload)
    ELSE data

\* the id of the root widget, the id and the window of the harness
ButtonId == 1
HarnessWindowId == 1

MouseEvents == {"MouseDown", "MouseUp", "MouseMove", "Wheel"}

\* Rect::contains for the rectangle of the given size at the origin
rect_contains(size, pos) ==
    /\ 0 <= pos[1] /\ pos[1] < size[1]
    /\ 0 <= pos[2] /\ pos[2] < size[2]

\* the root pod tells whether the mouse is over it before it hands a mouse
\* event to its widget; a new window size makes it ask for layout
pod_hot(r, ev) ==
    CASE ev.kind \in MouseEvents -> [r EXCEPT !.is_hot = rect_contains(r.size, ev.arg[1])]
      [] ev.kind = "WindowSize" -> [r EXCEPT !.needs_layout = TRUE]
      [] OTHER -> r

\* the root pod hands a mouse event on if the mouse is over it or it is active
reaches_button(r, ev) ==
    ev.kind \in MouseEvents /\ (pod_hot(r, ev).is_hot \/ r.is_active)

\* Button::on_event: pressed it becomes active; released while active it
\* submits ButtonPressed and is active no more
button_submits(r, ev) ==
    reaches_button(r, ev) /\ ev.kind = "MouseUp" /\ r.is_active /\ pod_hot(r, ev).is_hot

button_on_event(r, ev) ==
    LET hot == pod_hot(r, ev) IN
    IF ~reaches_button(r, ev) THEN hot
    ELSE CASE ev.kind = "MouseDown" -> [hot EXCEPT !.is_active = TRUE]
           [] ev.kind = "MouseUp" -> [hot EXCEPT !.is_active = FALSE]
           [] OTHER -> hot

\* a slip of submit_action: the newest action goes to the front
submit_action_in_front(queue, action, widget_id, serial) ==
    <<[action |-> action, widget_id |-> widget_id, window_id |-> HarnessWindowId,
       serial |-> serial]>> \o queue

\* ctx.submit_action: (action, widget id, window id) goes to the back of the
\* action queue; serial is history, the how-manieth action this is
submit_action(queue, action, widget_id, serial) ==
    Append(queue, [action |-> action, widget_id |-> widget_id,
                   window_id |-> HarnessWindowId, serial |-> serial])

\* the root pod forgets the request for an animation frame when it is handed
\* an AnimFrame event: request_anim tells whether a widget asked since
pod_anim(r, ev) ==
    IF ev.kind = "AnimFrame" THEN [r EXCEPT !.request_anim = FALSE] ELSE r

\* root.on_event(ctx, event) is entered; a Button at the root handles the
\* event at once
Event_deliver ==
    /\ At("event", "deliver")
    /\ calls' = Goto("on_event")
    /\ delivered' = IF CTop.ev.kind = "TargetedCommand"
                    THEN Append(delivered, CTop.ev.arg[1])
                    ELSE delivered
    /\ widget_data' = deliver_data(widget_data, CTop.ev)
    /\ IF harness.root_widget = "Button"
       THEN /\ root' = pod_anim(button_on_event(root, CTop.ev), CTop.ev)
            /\ IF button_submits(root, CTop.ev)
               THEN /\ action_queue' = submit_action(action_queue, "ButtonPressed", ButtonId,
                                                     harness.submitted + 1)
                    /\ harness' = [harness EXCEPT !.submitted = @ + 1]
               ELSE UNCHANGED <<action_queue, harness>>
       ELSE /\ root' = pod_anim(root, CTop.ev)
            /\ UNCHANGED <<action_queue, harness>>
    /\ UNCHANGED <<command_queue, window, wfuel, last_handled, pushed, timer_log, app>>
    /\ UNCHANGED <<rxVars, pods, sized_box, updater, paint>>

\* HashMap::remove on the window's timers
remove_timer(timers, token) == [t \in DOMAIN timers \ {token} |-> timers[t]]

\* a slip of WindowRoot::event: the token of a routed timer stays registered
timers_after_kept(timers, ev) == timers

\* WindowRoot::event: the token of a routed timer is cleaned up right after
\* the event pass
timers_after(timers, ev) ==
    IF ev.kind = "RouteTimer" THEN remove_timer(timers, ev.arg[1]) ELSE timers

\* RuntimeView::on_event returns: the runtime's queue is flushed, the root pod
\* merges its state into the accumulator of the pass; then the rest of
\* WindowRoot::event up to post_event_processing
Event_pass_return ==
    /\ At("event", "on_event")
    /\ command_queue' = flush_commands(command_queue, rt_command_queue)
    /\ pushed' = pushed \o Serials(rt_command_queue)
    /\ UNCHANGED timer_log
    /\ UNCHANGED <<app, action_queue, harness>>
    /\ rt_command_queue' = <<>>
    /\ LET merged == [calls EXCEPT ![Len(calls)].pc = "post",
                                   ![Len(calls)].ws.children_changed = root.children_changed]
       IN calls' = IF CTop.ev.kind = "WindowSize" /\ window.size_policy = "Content"
                   THEN Call(merged, LayoutFrame)
                   ELSE merged
    /\ window' = [window EXCEPT !.timers = timers_after(@, CTop.ev)]
    /\ UNCHANGED <<root, wfuel, last_handled, delivered>>
    /\ UNCHANGED <<rxOnlyVars, emitted, treeVars>>

Event_post ==
    /\ At("event", "post")
    /\ calls' = Call(Goto("ret"), PostFrame(CTop.ws))
    /\ UNCHANGED <<command_queue, window, root, wfuel, last_handled, delivered, pushed, timer_log, app, action_queue, harness>>
    /\ UNCHANGED <<rxVars, treeVars>>

\* what the event pass hands back: WindowRoot::event returns is_handled,
\* RenderRoot::root_on_event ends with Handled::No
event_result(dispatcher, is_handled) ==
    IF dispatcher = "RenderRoot" THEN FALSE ELSE is_handled

Event_return ==
    /\ At("event", "ret")
    /\ last_handled' = event_result(window.dispatcher, CTop.is_handled)
    /\ calls' = Return
    /\ UNCHANGED <<command_queue, window, root, wfuel, delivered, pushed, timer_log, app, action_queue, harness>>
    /\ UNCHANGED <<rxVars, treeVars>>

\* ---------------------------------------------------- WindowRoot::lifecycle
\* what the root pod does to its own state when a lifecycle pass enters it
lifecycle_root(r, ev) ==
    CASE ev.kind = "RouteWidgetAdded" ->
            [r EXCEPT !.children_changed = FALSE,
                      !.update_focus_chain = r.update_focus_chain \/ r.children_changed]
      [] ev.kind = "ParentWindowOrigin" -> [r EXCEPT !.needs_window_origin = FALSE]
      [] ev.kind = "RouteDisabledChanged" -> [r EXCEPT !.disabled_changed = FALSE]
      [] ev.kind = "BuildFocusChain" ->
            [r EXCEPT !.update_focus_chain = FALSE, !.focus_chain = <<>>]
      [] OTHER -> r

\* the pods below the root, in the order a pass walks them
RECURSIVE PreOrder(_, _)
PreOrder(children, id) ==
    LET RECURSIVE Walk(_)
        Walk(ids) == IF ids = <<>> THEN <<>>
                     ELSE PreOrder(children, Head(ids)) \o Walk(Tail(ids))
    IN <<id>> \o Walk(children[id])

RootId == 1

\* what a lifecycle pass does to the pods: RouteWidgetAdded reaches every pod
\* that is still new, in the order of the walk, and hands it WidgetAdded
lifecycle_pods(p, ev) ==
    IF ev.kind = "RouteWidgetAdded"
    THEN [p EXCEPT !.added = @ \o SelectSeq(PreOrder(p.children, RootId),
                                            LAMBDA id : id \in p.new),
                   !.new = {}]
    ELSE p

Lifecycle_start ==
    /\ At("lifecycle", "start")
    /\ root' = lifecycle_root(root, CTop.ev)
    /\ pods' = lifecycle_pods(pods, CTop.ev)
    /\ calls' = Goto("pass")
    /\ UNCHANGED <<command_queue, window, wfuel, last_handled, delivered, pushed, timer_log, app, action_queue, harness>>
    /\ UNCHANGED <<rxVars, widget_data, sized_box, updater, paint>>

\* root.lifecycle returned: RuntimeView::lifecycle flushes nothing; then
\* post_event_processing
Lifecycle_pass_return ==
    /\ At("lifecycle", "pass")
    /\ calls' = Call(Goto("ret"),
                     PostFrame([CTop.ws EXCEPT !.children_changed = root.children_changed]))
    /\ UNCHANGED <<command_queue, window, root, wfuel, last_handled, delivered, pushed, timer_log, app, action_queue, harness>>
    /\ UNCHANGED <<rxVars, treeVars>>

Lifecycle_return ==
    /\ At("lifecycle", "ret")
    /\ calls' = Return
    /\ UNCHANGED <<command_queue, window, root, wfuel, last_handled, delivered, pushed, timer_log, app, action_queue, harness>>
    /\ UNCHANGED <<rxVars, treeVars>>

\* ---------------------------------------------------- WindowRoot::layout
\* what the root pod does to its own state when the layout pass enters it
layout_root(r) == [r EXCEPT !.needs_layout = FALSE, !.needs_window_origin = TRUE]

Layout_start ==
    /\ At("layout", "start")
    /\ root' = layout_root(root)
    /\ calls' = [calls EXCEPT ![Len(calls)].pc = "pass",
                              ![Len(calls)].bc = Some(root_constraints(window.size_policy,
                                                                       window.size))]
    /\ UNCHANGED <<command_queue, window, wfuel, last_handled, delivered, pushed, timer_log, app, action_queue, harness>>
    /\ UNCHANGED <<rxVars, treeVars>>

\* RuntimeView::layout returns: the runtime's queue is flushed; the window is
\* resized to its content; ParentWindowOrigin is dispatched
Layout_pass_return ==
    /\ At("layout", "pass")
    /\ command_queue' = flush_commands(command_queue, rt_command_queue)
    /\ pushed' = pushed \o Serials(rt_command_queue)
    /\ UNCHANGED timer_log
    /\ UNCHANGED <<app, action_queue, harness>>
    /\ rt_command_queue' = <<>>
    /\ \E content \in ContentSizes(CTop.bc[1]),
          insets \in (IF window.size_policy = "Content" THEN Insets ELSE {ZERO}) :
          /\ window' = sized_to_content(window, content, insets)
          /\ calls' = Call([calls EXCEPT ![Len(calls)].pc = "post",
                                         ![Len(calls)].content = Some(<<content, insets>>),
                                         ![Len(calls)].ws.children_changed = root.children_changed],
                           LifecycleFrame(Ev("ParentWindowOrigin", <<>>)))
          /\ root' = [root EXCEPT !.origin = Some(ORIGIN), !.size = content]
    /\ UNCHANGED <<wfuel, last_handled, delivered>>
    /\ UNCHANGED <<rxOnlyVars, emitted, treeVars>>

Layout_post ==
    /\ At("layout", "post")
    /\ calls' = Call(Goto("ret"), PostFrame(CTop.ws))
    /\ UNCHANGED <<command_queue, window, root, wfuel, last_handled, delivered, pushed, timer_log, app, action_queue, harness>>
    /\ UNCHANGED <<rxVars, treeVars>>

Layout_return ==
    /\ At("layout", "ret")
    /\ calls' = Return
    /\ UNCHANGED <<command_queue, window, root, wfuel, last_handled, delivered, pushed, timer_log, app, action_queue, harness>>
    /\ UNCHANGED <<rxVars, treeVars>>

\* ---------------------------------------------------- focus
\* position of id in the chain, counted from 0; Len(chain) if absent
position(chain, id) ==
    IF \E i \in DOMAIN chain : chain[i] = id
    THEN (CHOOSE i \in DOMAIN chain :
              chain[i] = id /\ \A j \in DOMAIN chain : chain[j] = id => i <= j) - 1
    ELSE Len(chain)

\* a slip of the cycling: the index stops at the ends of the chain
new_idx_clamped(idx, len, forward) ==
    IF forward
    THEN (IF idx + 1 < len THEN idx + 1 ELSE idx)
    ELSE (IF idx > 0 THEN idx - 1 ELSE idx)

\* the index cycling moves to from idx in a chain of len entries
new_idx(idx, len, forward) ==
    IF forward THEN (idx + 1) % len ELSE (idx + len - 1) % len

\* the entry used when the focused widget is not in the chain
chain_end(chain, forward) ==
    IF chain = <<>> THEN None
    ELSE IF forward THEN Some(chain[1]) ELSE Some(chain[Len(chain)])

\* a slip of widget_from_focus_chain: a focused widget that is not in the
\* chain keeps the focus
widget_from_focus_chain_or_stay(focus, chain, forward) ==
    IF focus = None THEN None
    ELSE IF position(chain, focus[1]) < Len(chain)
         THEN Some(chain[new_idx(position(chain, focus[1]), Len(chain), forward) + 1])
         ELSE focus

\* WindowRoot::widget_from_focus_chain
widget_from_focus_chain(focus, chain, forward) ==
    IF focus = None THEN None
    ELSE IF position(chain, focus[1]) < Len(chain)
         THEN Some(chain[new_idx(position(chain, focus[1]), Len(chain), forward) + 1])
         ELSE chain_end(chain, forward)

\* WindowRoot::widget_for_focus_request
widget_for_focus_request(focus, chain, req) ==
    CASE req[1] = "Resign" -> None
      [] req[1] = "Focus" -> Some(req[2])
      [] req[1] = "Next" -> widget_from_focus_chain(focus, chain, TRUE)
      [] req[1] = "Previous" -> widget_from_focus_chain(focus, chain, FALSE)

\* a slip of update_focus: every request counts as a change
focus_changes_always(old, new) == TRUE

\* update_focus: RouteFocusChanged is sent only if there is an actual change
focus_changes(old, new) == old # new

\* update_focus: what the platform is told about input-method focus
ime_focus_change(handlers, old, new) ==
    IF new # None /\ new[1] \in handlers THEN Some(Some(new[1]))
    ELSE IF old # None /\ old[1] \in handlers THEN Some(None)
    ELSE None

\* ---------------------------------------------------- post_event_processing
\* a slip of post_event_processing: changed children are not looked at
needs_widget_added_never(ws) == FALSE

\* post_event_processing: children were changed during the pass
needs_widget_added(ws) == ws.children_changed

\* children changed: prune dead input-method sessions, send RouteWidgetAdded
Post_children ==
    /\ At("post_event_processing", "children")
    /\ calls' = IF needs_widget_added(CTop.ws)
                THEN Dispatch("origin", Ev("RouteWidgetAdded", <<>>))
                ELSE Goto("origin")
    /\ UNCHANGED <<command_queue, window, root, wfuel, last_handled, delivered, pushed, timer_log, app, action_queue, harness>>
    /\ UNCHANGED <<rxVars, treeVars>>

Post_origin ==
    /\ At("post_event_processing", "origin")
    /\ calls' = IF root.needs_window_origin /\ ~root.needs_layout
                THEN Dispatch("disabled", Ev("ParentWindowOrigin", <<>>))
                ELSE Goto("disabled")
    /\ UNCHANGED <<command_queue, window, root, wfuel, last_handled, delivered, pushed, timer_log, app, action_queue, harness>>
    /\ UNCHANGED <<rxVars, treeVars>>

Post_disabled ==
    /\ At("post_event_processing", "disabled")
    /\ calls' = IF root.disabled_changed
                THEN Dispatch("chain", Ev("RouteDisabledChanged", <<>>))
                ELSE Goto("chain")
    /\ UNCHANGED <<command_queue, window, root, wfuel, last_handled, delivered, pushed, timer_log, app, action_queue, harness>>
    /\ UNCHANGED <<rxVars, treeVars>>

\* a slip of post_event_processing: the focus chain is not rebuilt
Post_chain_skipped ==
    /\ At("post_event_processing", "chain")
    /\ calls' = Goto("focus")
    /\ UNCHANGED <<command_queue, window, root, wfuel, last_handled, delivered, pushed, timer_log, app, action_queue, harness>>
    /\ UNCHANGED <<rxVars, treeVars>>

Post_chain ==
    /\ At("post_event_processing", "chain")
    /\ calls' = IF root.update_focus_chain
                THEN Dispatch("focus", Ev("BuildFocusChain", <<>>))
                ELSE Goto("focus")
    /\ UNCHANGED <<command_queue, window, root, wfuel, last_handled, delivered, pushed, timer_log, app, action_queue, harness>>
    /\ UNCHANGED <<rxVars, treeVars>>

\* update_focus up to the dispatch of RouteFocusChanged; req, old and new are
\* its locals focus_req, old and new
Post_focus ==
    /\ At("post_event_processing", "focus")
    /\ LET req == CTop.ws.request_focus
           old == window.focus
           new == widget_for_focus_request(window.focus, root.focus_chain, req[1])
           taken == [calls EXCEPT ![Len(calls)].ws.request_focus = None,
                                  ![Len(calls)].req = req,
                                  ![Len(calls)].old = old,
                                  ![Len(calls)].new = new]
       IN /\ calls' =
            IF req = None THEN Goto("finish")
            ELSE IF focus_changes(old, new)
                 THEN Call([taken EXCEPT ![Len(calls)].pc = "focus_done",
                                         ![Len(calls)].sent = Append(@, "RouteFocusChanged")],
                           LifecycleFrame(Ev("RouteFocusChanged", <<old, new>>)))
                 ELSE [taken EXCEPT ![Len(calls)].pc = "finish"]
          /\ harness' = IF req # None /\ focus_changes(old, new)
                        THEN [harness EXCEPT !.routed = new]
                        ELSE harness
    /\ UNCHANGED <<command_queue, window, root, wfuel, last_handled, delivered, pushed, timer_log, app, action_queue>>
    /\ UNCHANGED <<rxVars, treeVars>>

\* update_focus after RouteFocusChanged was dispatched
Post_focus_done ==
    /\ At("post_event_processing", "focus_done")
    /\ window' = [window EXCEPT
                    !.focus = CTop.new,
                    !.ime_focus_change = ime_focus_change(window.ime_handlers, CTop.old, CTop.new)]
    /\ calls' = Goto("finish")
    /\ UNCHANGED <<command_queue, root, wfuel, last_handled, delivered, pushed, timer_log, app, action_queue, harness>>
    /\ UNCHANGED <<rxVars, treeVars>>

\* HashMap::extend_drain: the requested timers are added to the window's,
\* a token that is in both maps gets its new owner
extend_drain(timers, requested) ==
    [t \in DOMAIN timers \cup DOMAIN requested |->
        IF t \in DOMAIN requested THEN requested[t] ELSE timers[t]]

\* the rest of post_event_processing: the requested timers are added to the
\* window's; the text fields the pass registered
\* become input-method sessions of the window
Post_finish ==
    /\ At("post_event_processing", "finish")
    /\ window' = [window EXCEPT !.timers = extend_drain(@, CTop.ws.timers),
                                !.ime_handlers = @ \cup CTop.ws.text_registrations]
    /\ calls' = Return
    /\ UNCHANGED <<command_queue, root, wfuel, last_handled, delivered, pushed, timer_log, app, action_queue, harness>>
    /\ UNCHANGED <<rxVars, treeVars>>

\* ---------------------------------------------------- what widgets do in a pass
InPass(fns) ==
    /\ calls # <<>>
    /\ CTop.fn \in fns
    /\ CTop.pc \in {"on_event", "pass"}
    /\ wfuel > 0

\* a closure below the RuntimeView calls update_widget
Widget_update_widget ==
    /\ InPass({"new", "event", "layout"})
    /\ emitted < MaxQueued
    /\ \E id \in WidgetIds, f \in Mutators : update_widget(id, f)
    /\ wfuel' = wfuel - 1
    /\ UNCHANGED <<stack, fuel>>
    /\ UNCHANGED <<command_queue, window, root, calls, last_handled, delivered, pushed, timer_log, app, action_queue, harness>>

\* a widget calls ctx.submit_command: straight onto the dispatcher's queue
Widget_submit_command ==
    /\ InPass({"event", "lifecycle", "layout"})
    /\ emitted < MaxQueued
    /\ command_queue' = Append(command_queue, Command("COMMAND", "none", <<"Global">>))
    /\ pushed' = Append(pushed, emitted + 1)
    /\ UNCHANGED timer_log
    /\ UNCHANGED <<app, action_queue, harness>>
    /\ emitted' = emitted + 1
    /\ wfuel' = wfuel - 1
    /\ UNCHANGED <<window, root, calls, last_handled, delivered>>
    /\ UNCHANGED <<rxOnlyVars, rt_command_queue, treeVars>>

\* a widget calls ctx.submit_action while it handles an event
Widget_submit_action ==
    /\ InPass({"event"})
    /\ harness.root_widget # "Button"
    /\ harness.submitted < MaxActions
    /\ \E id \in WidgetIds, action \in Actions :
          action_queue' = submit_action(action_queue, action, id, harness.submitted + 1)
    /\ harness' = [harness EXCEPT !.submitted = @ + 1]
    /\ wfuel' = wfuel - 1
    /\ UNCHANGED <<command_queue, window, root, calls, last_handled, delivered, pushed, timer_log, app>>
    /\ UNCHANGED <<rxVars, treeVars>>

\* a widget calls ctx.request_layout
Widget_request_layout ==
    /\ InPass({"event", "lifecycle"})
    /\ ~root.needs_layout
    /\ root' = [root EXCEPT !.needs_layout = TRUE]
    /\ wfuel' = wfuel - 1
    /\ UNCHANGED <<command_queue, window, calls, last_handled, delivered, pushed, timer_log, app, action_queue, harness>>
    /\ UNCHANGED <<rxVars, treeVars>>

\* a widget calls ctx.set_handled
Widget_set_handled ==
    /\ InPass({"event"})
    /\ ~CTop.is_handled
    /\ calls' = [calls EXCEPT ![Len(calls)].is_handled = TRUE]
    /\ wfuel' = wfuel - 1
    /\ UNCHANGED <<command_queue, window, root, last_handled, delivered, pushed, timer_log, app, action_queue, harness>>
    /\ UNCHANGED <<rxVars, treeVars>>

\* what a widget may ask for with request_focus, focus_next, focus_prev,
\* resign_focus
FocusRequests ==
    {<<"Resign">>, <<"Next">>, <<"Previous">>} \cup {<<"Focus", id>> : id \in FocusIds}

\* a widget asks for a focus change while it handles an event
Widget_request_focus ==
    /\ InPass({"event"})
    /\ \E req \in FocusRequests :
          calls' = [calls EXCEPT ![Len(calls)].ws.request_focus = Some(req)]
    /\ wfuel' = wfuel - 1
    /\ UNCHANGED <<command_queue, window, root, last_handled, delivered, pushed, timer_log, app, action_queue, harness>>
    /\ UNCHANGED <<rxVars, treeVars>>

\* a widget's state asks for a focus change during a lifecycle pass
Lifecycle_request_focus ==
    /\ InPass({"lifecycle"})
    /\ \E req \in FocusRequests :
          calls' = [calls EXCEPT ![Len(calls)].ws.request_focus = Some(req)]
    /\ wfuel' = wfuel - 1
    /\ UNCHANGED <<command_queue, window, root, last_handled, delivered, pushed, timer_log, app, action_queue, harness>>
    /\ UNCHANGED <<rxVars, treeVars>>

\* a widget answers BuildFocusChain with ctx.register_for_focus
Widget_register_for_focus ==
    /\ At("lifecycle", "pass")
    /\ CTop.ev.kind = "BuildFocusChain"
    /\ \E id \in FocusIds \ Range(root.focus_chain) :
          root' = [root EXCEPT !.focus_chain = Append(@, id)]
    /\ UNCHANGED <<command_queue, window, calls, wfuel, last_handled, delivered, pushed, timer_log, app, action_queue, harness>>
    /\ UNCHANGED <<rxVars, treeVars>>

\* a text widget that was just added registers its text input session
Widget_register_text_input ==
    /\ At("lifecycle", "pass")
    /\ CTop.ev.kind = "RouteWidgetAdded"
    /\ \E id \in TextIds \ (window.ime_handlers \cup CTop.ws.text_registrations) :
          calls' = [calls EXCEPT ![Len(calls)].ws.text_registrations = @ \cup {id}]
    /\ UNCHANGED <<command_queue, window, root, wfuel, last_handled, delivered, pushed, timer_log, app, action_queue, harness>>
    /\ UNCHANGED <<rxVars, treeVars>>

\* a widget builds a new child pod and calls ctx.children_changed
Widget_add_child ==
    /\ InPass({"event", "lifecycle"})
    /\ Len(pods.children) < MaxPods
    /\ \E parent \in DOMAIN pods.children :
          LET id == Len(pods.children) + 1 IN
          pods' = [pods EXCEPT
                     !.children = Append([@ EXCEPT ![parent] = Append(@, id)], <<>>),
                     !.new = @ \cup {id},
                     !.grew = TRUE]
    /\ root' = [root EXCEPT !.children_changed = TRUE]
    /\ wfuel' = wfuel - 1
    /\ UNCHANGED <<command_queue, window, calls, last_handled, delivered, pushed, timer_log, app, action_queue, harness>>
    /\ UNCHANGED <<rxVars, widget_data, sized_box, updater, paint>>

\* a widget changes its children and calls ctx.children_changed
Widget_children_changed ==
    /\ InPass({"event", "lifecycle"})
    /\ ~root.children_changed
    /\ root' = [root EXCEPT !.children_changed = TRUE]
    /\ wfuel' = wfuel - 1
    /\ UNCHANGED <<command_queue, window, calls, last_handled, delivered, pushed, timer_log, app, action_queue, harness>>
    /\ UNCHANGED <<rxVars, treeVars>>

\* a widget moves a child while it handles an event: the absolute origins
\* below it are stale
Widget_move_child ==
    /\ InPass({"event"})
    /\ ~root.needs_window_origin
    /\ root' = [root EXCEPT !.needs_window_origin = TRUE]
    /\ wfuel' = wfuel - 1
    /\ UNCHANGED <<command_queue, window, calls, last_handled, delivered, pushed, timer_log, app, action_queue, harness>>
    /\ UNCHANGED <<rxVars, treeVars>>

\* a widget calls ctx.set_disabled: the disabled state of the tree changed
Widget_set_disabled ==
    /\ InPass({"event", "lifecycle"})
    /\ ~root.disabled_changed
    /\ root' = [root EXCEPT !.disabled_changed = TRUE]
    /\ wfuel' = wfuel - 1
    /\ UNCHANGED <<command_queue, window, calls, last_handled, delivered, pushed, timer_log, app, action_queue, harness>>
    /\ UNCHANGED <<rxVars, treeVars>>

\* a widget calls ctx.request_timer: the token is noted in the state of the
\* pass under the widget's id
Widget_request_timer ==
    /\ InPass({"event", "lifecycle", "layout"})
    /\ \E token \in Tokens, id \in WidgetIds :
          calls' = [calls EXCEPT ![Len(calls)].ws.timers =
                       extend_drain(@, [t \in {token} |-> id])]
    /\ wfuel' = wfuel - 1
    /\ UNCHANGED <<command_queue, window, root, last_handled, delivered, pushed, timer_log, app, action_queue, harness>>
    /\ UNCHANGED <<rxVars, treeVars>>

\* a widget calls ctx.request_anim_frame
Widget_request_anim_frame ==
    /\ InPass({"event", "lifecycle"})
    /\ ~root.request_anim
    /\ root' = [root EXCEPT !.request_anim = TRUE]
    /\ wfuel' = wfuel - 1
    /\ UNCHANGED <<command_queue, window, calls, last_handled, delivered, pushed, timer_log, app, action_queue, harness>>
    /\ UNCHANGED <<rxVars, treeVars>>

\* ---------------------------------------------------- animation frames
\* the nanoseconds since the last animation frame, 0 if there was none
elapsed_ns(last, now) == IF last = None THEN 0 ELSE now - last[1]

\* a slip of prepare_paint: last_anim is read, not taken
last_anim_read(w) == w

\* prepare_paint: self.last_anim.take()
last_anim_taken(w) == [w EXCEPT !.last_anim = None]

\* WindowRoot::prepare_paint up to the AnimFrame event; clock is the instant
\* Instant::now returned, anims is history: for each call so far, the interval
\* of the AnimFrame it delivered, if it delivered one
Window_prepare_paint ==
    /\ calls = <<>>
    /\ Len(window.anims) < MaxPaints
    /\ \E now \in window.clock .. MaxNow :
          LET elapsed == elapsed_ns(window.last_anim, now)
              ev == Ev("AnimFrame", <<elapsed>>)
              wants == root.request_anim
          IN /\ window' = [last_anim_taken(window) EXCEPT
                              !.clock = now,
                              !.anims = Append(@, IF wants THEN Some(elapsed) ELSE None)]
             /\ calls' = IF wants
                         THEN <<[CallFrame("prepare_paint", "after", ev) EXCEPT !.n = now],
                                EventFrame(ev)>>
                         ELSE <<>>
    /\ wfuel' = MaxCalls
    /\ delivered' = <<>>
    /\ pushed' = Serials(command_queue)
    /\ timer_log' = <<>>
    /\ pods' = [pods EXCEPT !.grew = FALSE]
    /\ UNCHANGED <<command_queue, root, last_handled, app, action_queue, harness>>
    /\ UNCHANGED <<rxVars, widget_data, sized_box, updater, paint>>

\* prepare_paint after the AnimFrame event: self.last_anim = Some(now)
Prepare_paint_return ==
    /\ At("prepare_paint", "after")
    /\ window' = [window EXCEPT !.last_anim = Some(CTop.n)]
    /\ calls' = Return
    /\ UNCHANGED <<command_queue, root, wfuel, last_handled, delivered, pushed, timer_log, app, action_queue, harness>>
    /\ UNCHANGED <<rxVars, treeVars>>

\* ---------------------------------------------------- AppRoot and Windows
\* AppRoot::default: no window, nothing queued
InitApp ==
    [pending |-> {}, active_windows |-> {}, command_queue |-> <<>>,
     handle_window_id |-> None, panicked |-> FALSE, call |-> <<>>, log |-> <<>>,
     result |-> FALSE, contains |-> {}, handles |-> {}, idle |-> {}]

\* the targets and the commands dispatch_cmd is given
Targets ==
    {<<"Window", w>> : w \in WindowIds} \cup {<<"Widget", 1>>, <<"Global">>, <<"Auto">>}
AppCommands ==
    [selector : {"COMMAND"}, target : Targets]
        \cup [selector : {"CLOSE_WINDOW"}, target : {<<"Window", w>> : w \in WindowIds}]

\* Windows::add: assert!(self.pending.insert(id, win).is_none())
Windows_add(a, id) ==
    IF id \in a.pending
    THEN [a EXCEPT !.panicked = TRUE]
    ELSE [a EXCEPT !.pending = @ \cup {id}]

\* Windows::connect: the pending window becomes an active one
Windows_connect(a, id) ==
    IF id \in a.pending
    THEN (IF id \in a.active_windows
          THEN [a EXCEPT !.pending = @ \ {id}, !.panicked = TRUE]
          ELSE [a EXCEPT !.pending = @ \ {id}, !.active_windows = @ \cup {id}])
    ELSE a

\* WindowRoot::new keeps the handle the window was connected with; idle tells
\* whether handle.get_idle_handle() gives an idle handle
with_handle(a, connected, id, idle) ==
    IF id \in connected.active_windows \ a.active_windows /\ idle
    THEN [connected EXCEPT !.idle = @ \cup {id}]
    ELSE connected

\* AppRoot::set_ext_event_idle_handler; idle: the window's handle has an idle
\* handle to give
set_ext_event_idle_handler(a, id, idle) ==
    IF id \in a.active_windows /\ idle
    THEN [a EXCEPT !.handle_window_id = Some(id)]
    ELSE a

App_add(id) ==
    /\ ~app.panicked
    /\ app' = [Windows_add(app, id) EXCEPT !.call = <<"add", id>>, !.log = <<>>,
                                          !.contains = {}, !.handles = {}]
    /\ UNCHANGED <<command_queue, window, root, calls, wfuel, last_handled,
                   delivered, pushed, timer_log, action_queue, harness>>
    /\ UNCHANGED <<rxVars, treeVars>>

\* AppRoot::connect
App_connect(id) ==
    /\ ~app.panicked
    /\ \E idle \in BOOLEAN :
          LET connected == with_handle(app, Windows_connect(app, id), id, idle) IN
          app' = [(IF ~connected.panicked /\ connected.handle_window_id = None
                   THEN set_ext_event_idle_handler(connected, id, id \in connected.idle)
                   ELSE connected) EXCEPT !.call = <<"connect", id>>, !.log = <<>>,
                                             !.contains = {}, !.handles = {}]
    /\ UNCHANGED <<command_queue, window, root, calls, wfuel, last_handled,
                   delivered, pushed, timer_log, action_queue, harness>>
    /\ UNCHANGED <<rxVars, treeVars>>

\* AppRoot::remove_window; other is the window keys().find comes upon first
App_remove_window(id) ==
    /\ ~app.panicked
    /\ LET removed == [app EXCEPT !.active_windows = @ \ {id}, !.idle = @ \ {id}] IN
       \E other \in (IF removed.active_windows = {} THEN {id} ELSE removed.active_windows) :
          /\ app' = [(IF app.handle_window_id = Some(id)
                      THEN set_ext_event_idle_handler(
                               [removed EXCEPT !.handle_window_id = None],
                               other, other \in removed.idle)
                      ELSE removed) EXCEPT !.call = <<"remove_window", id>>, !.log = <<>>,
                                            !.contains = {}, !.handles = {}]
    /\ UNCHANGED <<command_queue, window, root, calls, wfuel, last_handled,
                   delivered, pushed, timer_log, action_queue, harness>>
    /\ UNCHANGED <<rxVars, treeVars>>

\* AppRoot::append_command
App_append_command(cmd) ==
    /\ ~app.panicked
    /\ Len(app.command_queue) < MaxAppCmds
    /\ app' = [app EXCEPT !.command_queue = Append(@, cmd),
                          !.call = <<"append_command", cmd>>, !.log = <<>>,
                          !.contains = {}, !.handles = {}]
    /\ UNCHANGED <<command_queue, window, root, calls, wfuel, last_handled,
                   delivered, pushed, timer_log, action_queue, harness>>
    /\ UNCHANGED <<rxVars, treeVars>>

\* a slip of dispatch_cmd: a command without a target goes to every window
dispatch_receivers_auto_global(a, cmd, contains) ==
    CASE cmd.target[1] = "Window" -> {cmd.target[2]} \cap a.active_windows
      [] cmd.target[1] = "Widget" -> a.active_windows \cap contains
      [] OTHER -> a.active_windows

\* a slip of dispatch_cmd: may_contain_widget is not asked
dispatch_receivers_unfiltered(a, cmd, contains) ==
    CASE cmd.target[1] = "Window" -> {cmd.target[2]} \cap a.active_windows
      [] cmd.target[1] = "Widget" -> a.active_windows
      [] cmd.target[1] = "Global" -> a.active_windows
      [] cmd.target[1] = "Auto" -> {}

\* dispatch_cmd: the windows the command may be handed to; contains: the
\* windows whose may_contain_widget answers yes
dispatch_receivers(a, cmd, contains) ==
    CASE cmd.target[1] = "Window" -> {cmd.target[2]} \cap a.active_windows
      [] cmd.target[1] = "Widget" -> a.active_windows \cap contains
      [] cmd.target[1] = "Global" -> a.active_windows
      [] cmd.target[1] = "Auto" -> {}

\* what may_contain_widget may answer: any windows for a widget, the filter
\* is not asked for another target
MayContain(cmd) ==
    IF cmd.target[1] = "Widget" THEN SUBSET WindowIds ELSE {WindowIds}

\* dispatch_cmd: the event a window is handed for the command
dispatch_event(cmd) ==
    CASE cmd.target[1] = "Window" /\ cmd.selector = "CLOSE_WINDOW" -> "WindowCloseRequested"
      [] cmd.target[1] = "Widget" -> "TargetedCommand"
      [] OTHER -> "Command"

\* a slip of dispatch_cmd: the window is disconnected although it handled
\* the close request
dispatch_log_disconnecting(order, kind, handles) ==
    LET tried == [i \in DOMAIN order |-> [window |-> order[i], event |-> kind]]
    IN IF kind = "WindowCloseRequested" /\ order # <<>>
       THEN Append(tried, [window |-> order[1], event |-> "WindowDisconnected"])
       ELSE tried

\* dispatch_cmd: the windows are tried in order until one handles the event;
\* a close request nobody handled is followed by WindowDisconnected
dispatch_log(order, kind, handles) ==
    LET first == IF \E i \in DOMAIN order : order[i] \in handles
                 THEN CHOOSE i \in DOMAIN order :
                          order[i] \in handles /\ \A j \in 1..(i - 1) : order[j] \notin handles
                 ELSE Len(order)
        tried == [i \in 1..first |-> [window |-> order[i], event |-> kind]]
    IN IF kind = "WindowCloseRequested" /\ order # <<>> /\ order[1] \notin handles
       THEN Append(tried, [window |-> order[1], event |-> "WindowDisconnected"])
       ELSE tried

\* AppRoot::dispatch_cmd; order: the order the map yields the windows in;
\* handles: the windows whose widgets handle the event; submits: a widget
\* submits a command while it is handed the event
App_dispatch_cmd(cmd) ==
    /\ ~app.panicked
    /\ \E contains \in MayContain(cmd), submits \in BOOLEAN :
       \E order \in Perms(dispatch_receivers(app, cmd, contains)) :
       \E handles \in SUBSET Range(order) :
          LET log == dispatch_log(order, dispatch_event(cmd), handles) IN
          app' = [app EXCEPT
                    !.call = <<"dispatch_cmd", cmd>>,
                    !.log = log,
                    !.contains = contains,
                    !.handles = handles,
                    !.result = \E i \in DOMAIN order : order[i] \in handles,
                    !.command_queue =
                        IF submits /\ log # <<>> /\ Len(@) < MaxAppCmds
                        THEN Append(@, [selector |-> "COMMAND", target |-> <<"Global">>])
                        ELSE @]
    /\ UNCHANGED <<command_queue, window, root, calls, wfuel, last_handled,
                   delivered, pushed, timer_log, action_queue, harness>>
    /\ UNCHANGED <<rxVars, treeVars>>

\* ---------------------------------------------------- the platform driver
\* AppRoot::do_window_event for the window; n keeps the number of commands
\* emitted before the call
Driver_do_window_event ==
    /\ calls = <<>>
    /\ \E ev \in DriverEvents :
          calls' = <<[CallFrame("do_window_event", "ret", ev) EXCEPT !.n = emitted],
                     EventFrame(ev)>>
    /\ wfuel' = MaxCalls
    /\ UNCHANGED <<command_queue, window, root, last_handled>>
    /\ delivered' = <<>>
    /\ pushed' = Serials(command_queue)
    /\ timer_log' = <<>>
    /\ UNCHANGED <<app, action_queue, harness>>
    /\ pods' = [pods EXCEPT !.grew = FALSE]
    /\ UNCHANGED <<rxVars, widget_data, sized_box, updater, paint>>

Driver_return ==
    /\ calls # <<>>
    /\ CTop.fn \in {"do_window_event", "dispatch_cmd", "paint"}
    /\ CTop.pc = "ret"
    /\ calls' = Return
    /\ UNCHANGED <<command_queue, window, root, wfuel, last_handled, delivered, pushed, timer_log, app, action_queue, harness>>
    /\ UNCHANGED <<rxVars, treeVars>>

\* the platform's idle callback takes the next command off the queue and
\* hands it to AppRoot::dispatch_cmd, which sends it to the window
Driver_dispatch_cmd ==
    /\ calls = <<>>
    /\ command_queue # <<>>
    /\ command_queue' = pop_front(command_queue).rest
    /\ calls' = <<CallFrame("dispatch_cmd", "ret", NoEvent),
                  EventFrame(Ev(dispatch_event(pop_front(command_queue).cmd),
                                <<pop_front(command_queue).cmd>>))>>
    /\ wfuel' = MaxCalls
    /\ UNCHANGED <<window, root, last_handled>>
    /\ delivered' = <<>>
    /\ pushed' = Serials(command_queue)
    /\ timer_log' = <<>>
    /\ UNCHANGED <<app, action_queue, harness>>
    /\ pods' = [pods EXCEPT !.grew = FALSE]
    /\ UNCHANGED <<rxVars, widget_data, sized_box, updater, paint>>

\* AppRoot::paint for the window: WindowRoot::do_paint
Driver_paint ==
    /\ calls = <<>>
    /\ calls' = <<CallFrame("paint", "ret", NoEvent), CallFrame("do_paint", "start", NoEvent)>>
    /\ wfuel' = MaxCalls
    /\ UNCHANGED <<command_queue, window, root, last_handled>>
    /\ delivered' = <<>>
    /\ pushed' = Serials(command_queue)
    /\ timer_log' = <<>>
    /\ UNCHANGED <<app, action_queue, harness>>
    /\ pods' = [pods EXCEPT !.grew = FALSE]
    /\ UNCHANGED <<rxVars, widget_data, sized_box, updater, paint>>

\* WindowRoot::do_paint: lay out first if the root asks for it
Do_paint_start ==
    /\ At("do_paint", "start")
    /\ calls' = IF root.needs_layout THEN Call(Goto("paint"), LayoutFrame) ELSE Goto("paint")
    /\ UNCHANGED <<command_queue, window, root, wfuel, last_handled, delivered, pushed, timer_log, app, action_queue, harness>>
    /\ UNCHANGED <<rxVars, treeVars>>

\* do_paint: the invalid region is cleared, then WindowRoot::paint
Do_paint_paint ==
    /\ At("do_paint", "paint")
    /\ calls' = Call(Goto("ret"), CallFrame("paint_pass", "start", NoEvent))
    /\ UNCHANGED <<command_queue, window, root, wfuel, last_handled, delivered, pushed, timer_log, app, action_queue, harness>>
    /\ UNCHANGED <<rxVars, treeVars>>

Do_paint_return ==
    /\ At("do_paint", "ret")
    /\ calls' = Return
    /\ UNCHANGED <<command_queue, window, root, wfuel, last_handled, delivered, pushed, timer_log, app, action_queue, harness>>
    /\ UNCHANGED <<rxVars, treeVars>>

\* WindowRoot::paint: root.paint_raw is entered
Paint_start ==
    /\ At("paint_pass", "start")
    /\ calls' = Goto("pass")
    /\ UNCHANGED <<command_queue, window, root, wfuel, last_handled, delivered, pushed, timer_log, app, action_queue, harness>>
    /\ UNCHANGED <<rxVars, treeVars>>

Paint_return ==
    /\ At("paint_pass", "pass")
    /\ calls' = Return
    /\ UNCHANGED <<command_queue, window, root, wfuel, last_handled, delivered, pushed, timer_log, app, action_queue, harness>>
    /\ UNCHANGED <<rxVars, treeVars>>

\* TestHarness::create_with: the mouse at Point::ZERO, nothing popped yet;
\* root_widget tells which widget the harness was created with
InitHarness(root_widget) ==
    [root_widget |-> root_widget, mouse_pos |-> ORIGIN,
     submitted |-> 0, popped |-> <<>>, pops |-> 0, last_pop |-> None, routed |-> None]

\* ---------------------------------------------------- the specifications
\* WindowRoot::new as TestHarness::create_with calls it; every pod is new
InitWindowBy(policy, root_widget, dispatcher) ==
    /\ command_queue = <<>>
    /\ window = [focus |-> None, ime_focus_change |-> None, ime_handlers |-> {},
                 size_policy |-> policy, size |-> ZERO, last_mouse_pos |-> None,
                 timers |-> <<>>, set_size |-> None, dispatcher |-> dispatcher,
                 last_anim |-> None, clock |-> 0, anims |-> <<>>]
    /\ root = [needs_layout |-> TRUE, children_changed |-> TRUE,
               needs_window_origin |-> FALSE, update_focus_chain |-> FALSE,
               disabled_changed |-> FALSE, focus_chain |-> <<>>, origin |-> None,
               size |-> ZERO, is_hot |-> FALSE, is_active |-> FALSE,
               request_anim |-> FALSE]
    /\ wfuel = MaxCalls
    /\ last_handled = FALSE
    /\ delivered = <<>>
    /\ pushed = <<>>
    /\ timer_log = <<>>
    /\ app = InitApp
    /\ action_queue = <<>>
    /\ harness = InitHarness(root_widget)

\* the window is a WindowRoot
InitWindowWith(policy, root_widget) == InitWindowBy(policy, root_widget, "WindowRoot")

\* a window whose root is a RuntimeView
InitWindowOf(policy) == InitWindowWith(policy, "RuntimeView")

\* the harness builds its window with WindowSizePolicy::User
InitWindow == InitWindowOf("User")

Init ==
    /\ InitRx
    /\ InitTree
    /\ InitWindow
    /\ calls = <<CallFrame("create_with", "connect", NoEvent)>>

\* the passes of WindowRoot and its post-pass bookkeeping
WindowSteps ==
    \/ Event_start
    \/ Event_deliver
    \/ Event_pass_return
    \/ Event_post
    \/ Event_return
    \/ Lifecycle_start
    \/ Lifecycle_pass_return
    \/ Lifecycle_return
    \/ Layout_start
    \/ Layout_pass_return
    \/ Layout_post
    \/ Layout_return
    \/ Post_children
    \/ Post_origin
    \/ Post_disabled
    \/ Post_chain
    \/ Post_focus
    \/ Post_finish

Machine ==
    \/ Create_with
    \/ Harness_process_event
    \/ Process_event_after
    \/ Process_event_return
    \/ Drain_loop
    \/ Drain_layout
    \/ Drain_return
    \/ WindowSteps

Next ==
    \/ Machine
    \/ Harness_keyboard_type_chars
    \/ Type_key_down
    \/ Type_ime
    \/ Type_key_up
    \/ Type_after
    \/ Type_return
    \/ Widget_update_widget
    \/ Widget_submit_command
    \/ Widget_request_layout
    \/ Widget_set_handled

Spec == Init /\ [][Next]_vars

\* the harness driving a window whose widgets take part in focus handling
NextFocus ==
    \/ Machine
    \/ Post_focus_done
    \/ Widget_request_focus
    \/ Widget_register_for_focus
    \/ Widget_register_text_input

SpecFocus == Init /\ [][NextFocus]_vars

\* the same, with focus changes asked for during lifecycle passes as well
NextRefocus ==
    \/ NextFocus
    \/ Lifecycle_request_focus

SpecRefocus == Init /\ [][NextRefocus]_vars

\* the harness driving a window whose widgets add children
InitTrees ==
    /\ InitRx
    /\ InitWindow
    /\ calls = <<CallFrame("create_with", "connect", NoEvent)>>
    /\ widget_data = [id \in WidgetIds |-> <<>>]
    /\ \E children \in Shapes : pods = NewPods(children)
    /\ sized_box = SizedBox_new
    /\ updater = Updater_new(NoMismatch)
    /\ paint = NotPainting

NextTree ==
    \/ Machine
    \/ Widget_add_child

SpecTree == InitTrees /\ [][NextTree]_vars

\* the harness driving a window whose widgets set every flag the post-pass
\* bookkeeping looks at
NextPost ==
    \/ Machine
    \/ Post_focus_done
    \/ Widget_request_focus
    \/ Widget_register_for_focus
    \/ Widget_set_disabled
    \/ Widget_children_changed
    \/ Widget_move_child
    \/ Widget_request_layout

SpecPost == Init /\ [][NextPost]_vars

\* a window of either size policy, connected and driven by the platform
\* through AppRoot: events, commands on idle, paint
InitPolicy(policy) ==
    /\ InitRx
    /\ InitTree
    /\ InitWindowOf(policy)
    /\ calls = <<CallFrame("do_window_event", "ret", Ev("WindowConnected", <<>>)),
                 EventFrame(Ev("WindowConnected", <<>>))>>

NextDriver ==
    \/ WindowSteps
    \/ Driver_do_window_event
    \/ Driver_dispatch_cmd
    \/ Driver_paint
    \/ Driver_return
    \/ Do_paint_start
    \/ Do_paint_paint
    \/ Do_paint_return
    \/ Paint_start
    \/ Paint_return
    \/ Widget_submit_command
    \/ Widget_request_layout

SpecDriver == (\E policy \in {"User", "Content"} : InitPolicy(policy)) /\ [][NextDriver]_vars

\* the harness driving a window whose widgets ask for timers
NextTimer ==
    \/ Machine
    \/ Harness_move_timers_forward
    \/ Timers_loop
    \/ Widget_request_timer
    \/ Widget_set_handled

SpecTimer == Init /\ [][NextTimer]_vars

\* the harness clicking on its root widget and popping the actions: the root
\* is a Button, or a widget that submits actions as it likes
InitAction ==
    /\ InitRx
    /\ InitTree
    /\ \E root_widget \in {"Button", "RuntimeView"} : InitWindowWith("User", root_widget)
    /\ calls = <<CallFrame("create_with", "connect", NoEvent)>>

NextAction ==
    \/ Machine
    \/ Harness_mouse_move
    \/ Harness_mouse_click_on
    \/ Click_move
    \/ Click_press
    \/ Click_release
    \/ Click_return
    \/ Harness_pop_action
    \/ Widget_submit_action

SpecAction == InitAction /\ [][NextAction]_vars

\* the application root driven by the platform: windows come and go, commands
\* are dispatched to them
InitAppSpec == InitRx /\ InitTree /\ InitWindow /\ calls = <<>>

NextApp ==
    \/ \E id \in WindowIds : App_add(id)
    \/ \E id \in WindowIds : App_connect(id)
    \/ \E id \in WindowIds : App_remove_window(id)
    \/ \E cmd \in AppCommands : App_append_command(cmd)
    \/ \E cmd \in AppCommands : App_dispatch_cmd(cmd)

SpecApp == InitAppSpec /\ [][NextApp]_vars

\* the platform opening, connecting and closing up to three windows
AppWindowIds == {1, 2, 3}

NextWindows ==
    \/ \E id \in AppWindowIds : App_add(id)
    \/ \E id \in AppWindowIds : App_connect(id)
    \/ \E id \in AppWindowIds : App_remove_window(id)

SpecWindows == InitAppSpec /\ [][NextWindows]_vars

\* ---------------------------------------------------------- SizedBox
\* the lengths a SizedBox is built with and the lengths its parent's
\* constraints are made of
Lengths == {-100, 0, 100, 200, 400, 500}
ParentLengths == {0, 200, 400}

\* f64::max, f64::min
fmax(a, b) == IF a >= b THEN a ELSE b
fmin(a, b) == IF a <= b THEN a ELSE b

\* the constraints a parent hands down: min <= max on both axes, max may be
\* infinite
ParentConstraints ==
    {[min |-> <<minw, minh>>, max |-> <<maxw, maxh>>] :
        minw \in ParentLengths, minh \in ParentLengths,
        maxw \in ParentLengths \cup {Infinity}, maxh \in ParentLengths \cup {Infinity}}
    \ {bc \in [min : ParentLengths \X ParentLengths,
                max : (ParentLengths \cup {Infinity}) \X (ParentLengths \cup {Infinity})] :
           bc.min[1] > bc.max[1] \/ bc.min[2] > bc.max[2]}

\* the builder methods take the box by value: they are called before the box
\* is put into the tree, that is before its first layout
Building == sized_box.bc = None

\* SizedBox::width, SizedBox::height
SizedBox_width(width) ==
    /\ Building
    /\ sized_box' = [sized_box EXCEPT !.width = Some(width)]
    /\ UNCHANGED <<rxVars, widget_data, pods, updater, paint, winVars>>

SizedBox_height(height) ==
    /\ Building
    /\ sized_box' = [sized_box EXCEPT !.height = Some(height)]
    /\ UNCHANGED <<rxVars, widget_data, pods, updater, paint, winVars>>

\* SizedBox::expand, expand_width, expand_height
SizedBox_expand ==
    /\ Building
    /\ sized_box' = [sized_box EXCEPT !.width = Some(Infinity), !.height = Some(Infinity)]
    /\ UNCHANGED <<rxVars, widget_data, pods, updater, paint, winVars>>

SizedBox_expand_width ==
    /\ Building
    /\ sized_box' = [sized_box EXCEPT !.width = Some(Infinity)]
    /\ UNCHANGED <<rxVars, widget_data, pods, updater, paint, winVars>>

SizedBox_expand_height ==
    /\ Building
    /\ sized_box' = [sized_box EXCEPT !.height = Some(Infinity)]
    /\ UNCHANGED <<rxVars, widget_data, pods, updater, paint, winVars>>

\* one axis of child_constraints: the pair (min, max) handed to the child
child_axis(dimension, bc_min, bc_max) ==
    IF dimension = None
    THEN <<bc_min, bc_max>>
    ELSE LET w == fmin(fmax(dimension[1], bc_min), bc_max) IN <<w, w>>

\* a slip of child_constraints: the set width and height are handed down as
\* they are
child_constraints_unclamped(box, bc) ==
    [min |-> <<IF box.width = None THEN bc.min[1] ELSE box.width[1],
               IF box.height = None THEN bc.min[2] ELSE box.height[1]>>,
     max |-> <<IF box.width = None THEN bc.max[1] ELSE box.width[1],
               IF box.height = None THEN bc.max[2] ELSE box.height[1]>>]

\* SizedBox::child_constraints
child_constraints(box, bc) ==
    LET width  == child_axis(box.width, bc.min[1], bc.max[1])
        height == child_axis(box.height, bc.min[2], bc.max[2])
    IN [min |-> <<width[1], height[1]>>, max |-> <<width[2], height[2]>>]

\* SizedBox::layout: the child is laid out under child_constraints(bc); the
\* size it takes goes back to the caller and is not kept by the box
SizedBox_layout(bc) ==
    /\ sized_box' = [sized_box EXCEPT !.bc = Some(bc),
                                      !.child_bc = Some(child_constraints(sized_box, bc))]
    /\ UNCHANGED <<rxVars, widget_data, pods, updater, paint, winVars>>

NextSizedBox ==
    \/ \E width \in Lengths : SizedBox_width(width)
    \/ \E height \in Lengths : SizedBox_height(height)
    \/ SizedBox_expand
    \/ SizedBox_expand_width
    \/ SizedBox_expand_height
    \/ \E bc \in ParentConstraints : SizedBox_layout(bc)

\* the runtime on its own, no harness call in progress
InitRxSpec == InitRx /\ InitTree /\ InitWindow /\ calls = <<>>

SpecRx == InitRxSpec /\ [][NextRx]_vars

\* signals and effects on their own: no commands are pushed
NextSignals ==
    \/ Call_create_rw_signal
    \/ Call_get
    \/ Call_set
    \/ Set_run_subscriber
    \/ Effect_return
    \/ Set_return
    \/ Call_create_effect
    \/ Call_untrack
    \/ Untrack_return

SpecSignals == InitRxSpec /\ [][NextSignals]_vars

\* signals and effects whose closures call deep enough to re-enter themselves
InitReentry == InitRxWith(MaxDeepOps) /\ InitTree /\ InitWindow /\ calls = <<>>

NextReentry ==
    \/ Call_create_rw_signal
    \/ Call_get
    \/ Call_set
    \/ Set_run_subscriber
    \/ Effect_return
    \/ Set_return
    \/ Call_create_effect

SpecReentry == InitReentry /\ [][NextReentry]_vars

\* a SizedBox being built and laid out under the constraints of its parents
InitSizedBox == InitRx /\ InitTree /\ InitWindow /\ calls = <<>>

SpecSizedBox == InitSizedBox /\ [][NextSizedBox]_vars

\* ---------------------------------------------------- update_widget's updater
\* std::any::type_name: the path of a type
type_name(W) ==
    CASE W = "SizedBox" -> "masonry::widget::sized_box::SizedBox"
      [] W = "Stack" -> "masonry::widget::stack::Stack"

\* the panic message of the updater, the quotes around the two names aside
mismatch_message(expected, found) ==
    <<"expected to update widget with type ", expected, ", but found ", found,
      " in the widget tree">>

\* what the widget a command was delivered to hands to the updater: the
\* name of its type and itself as dyn Any
UpdateWidgetArgs(widget) == [type_name |-> type_name(widget), widget |-> widget]

\* a slip of the downcast: every widget passes for a W
downcast_mut_unchecked(widget, W) == Some(widget)

\* <dyn Any>::downcast_mut::<W>: the widget if its concrete type is W
downcast_mut(widget, W) == IF widget = W THEN Some(widget) ELSE None

\* the closure update_widget::<W> boxes, called with args: downcast or
\* panic, build the WidgetMut, call f on it
updater_call(c, args) ==
    LET widget == downcast_mut(args.widget, c.W) IN
    IF widget = None
    THEN [updater EXCEPT !.queue = Tail(@),
                         !.panic = Some(mismatch_message(type_name(c.W), args.type_name))]
    ELSE [updater EXCEPT !.queue = Tail(@),
                         !.invoked = Append(@, [f |-> c.f, serial |-> c.serial,
                                                widget_mut |-> <<c.W, c.widget_id>>])]

\* update_widget::<W>(widget_id, f): box the updater, queue it for widget_id
Updater_update_widget ==
    /\ updater.panic = None
    /\ updater.queued < MaxUpdates
    /\ \E W \in WidgetTypes, widget_id \in WidgetIds, f \in Mutators :
          updater' = [updater EXCEPT
                         !.queue = push_command(@, [W |-> W, widget_id |-> widget_id, f |-> f,
                                                    serial |-> updater.queued + 1]),
                         !.queued = @ + 1]
    /\ UNCHANGED <<rxVars, widget_data, pods, sized_box, paint, winVars>>

\* the oldest queued command reaches its widget, which calls the updater
Updater_deliver ==
    /\ updater.panic = None
    /\ updater.queue # <<>>
    /\ LET c == Head(updater.queue) IN
          updater' = updater_call(c, UpdateWidgetArgs(updater.widgets[c.widget_id]))
    /\ UNCHANGED <<rxVars, widget_data, pods, sized_box, paint, winVars>>

NextUpdater == Updater_update_widget \/ Updater_deliver

\* updaters queued for trees of every typing of the widgets
InitUpdater ==
    /\ InitRx
    /\ InitWindow
    /\ calls = <<>>
    /\ widget_data = [id \in WidgetIds |-> <<>>]
    /\ pods = NewPods(<<<<2>>, <<>>>>)
    /\ sized_box = SizedBox_new
    /\ \E widgets \in [WidgetIds -> WidgetTypes] : updater = Updater_new(widgets)
    /\ paint = NotPainting

SpecUpdater == InitUpdater /\ [][NextUpdater]_vars

\* ---------------------------------------------------- the paint pass
ZIndexes == {0, 1}

\* PaintCtx::paint_with_z_index: the op goes to the back of the context's
\* z_ops; serial is history, the how-manieth op of the pass this is
paint_with_z_index(z_ops, z_index, serial) ==
    Append(z_ops, [z_index |-> z_index, serial |-> serial])

\* the place sort_by_key gives the i-th op: after the ops with a smaller
\* key and after the earlier ops with the same key
sorted_place(ops, i) ==
    1 + Cardinality({j \in DOMAIN ops :
                        \/ ops[j].z_index < ops[i].z_index
                        \/ ops[j].z_index = ops[i].z_index /\ j < i})

\* a slip of the sort: ops with the same key come out newest first
sort_by_key_unstable(ops) ==
    [p \in DOMAIN ops |->
        ops[CHOOSE i \in DOMAIN ops :
               p = 1 + Cardinality({j \in DOMAIN ops :
                                       \/ ops[j].z_index < ops[i].z_index
                                       \/ ops[j].z_index = ops[i].z_index /\ j > i})]]

\* z_ops.sort_by_key(|k| k.z_index): a stable sort
sort_by_key(ops) ==
    [p \in DOMAIN ops |-> ops[CHOOSE i \in DOMAIN ops : sorted_place(ops, i) = p]]

\* WindowRoot::paint up to the call of root.paint_raw: a context with no z-op
Paint_pass_start ==
    /\ paint.pc = "idle"
    /\ paint' = [NotPainting EXCEPT !.pc = "paint_raw"]
    /\ UNCHANGED <<rxVars, widget_data, pods, sized_box, updater, winVars>>

\* paint_raw reaches the next widget of the tree: the root, then its child
Paint_widget ==
    /\ paint.pc = "paint_raw"
    /\ Len(paint.painted) < Cardinality(WidgetIds)
    /\ paint' = [paint EXCEPT !.painted = Append(@, Len(@) + 1)]
    /\ UNCHANGED <<rxVars, widget_data, pods, sized_box, updater, winVars>>

\* the widget being painted, or the paint_func of the z-op being replayed,
\* calls ctx.paint_with_z_index
Paint_with_z_index ==
    /\ \/ paint.pc = "paint_raw" /\ paint.painted # <<>>
       \/ paint.pc = "replay" /\ paint.replayed # <<>>
    /\ paint.registered < MaxZOps
    /\ \E z_index \in ZIndexes :
          paint' = [paint EXCEPT
                       !.z_ops = paint_with_z_index(@, z_index, paint.registered + 1),
                       !.registered = @ + 1]
    /\ UNCHANGED <<rxVars, widget_data, pods, sized_box, updater, winVars>>

\* root.paint_raw returned: the z-ops are taken out of the context and sorted
Paint_take_z_ops ==
    /\ paint.pc = "paint_raw"
    /\ paint.painted # <<>>
    /\ paint' = [paint EXCEPT !.pc = "replay",
                              !.taken = sort_by_key(paint.z_ops),
                              !.z_ops = <<>>,
                              !.in_tree = paint.registered]
    /\ UNCHANGED <<rxVars, widget_data, pods, sized_box, updater, winVars>>

\* the for loop: the next z-op's paint_func is called
Paint_replay ==
    /\ paint.pc = "replay"
    /\ paint.taken # <<>>
    /\ paint' = [paint EXCEPT !.taken = Tail(@), !.replayed = Append(@, Head(paint.taken))]
    /\ UNCHANGED <<rxVars, widget_data, pods, sized_box, updater, winVars>>

\* WindowRoot::paint returns
Paint_pass_return ==
    /\ paint.pc = "replay"
    /\ paint.taken = <<>>
    /\ paint' = [paint EXCEPT !.pc = "idle"]
    /\ UNCHANGED <<rxVars, widget_data, pods, sized_box, updater, winVars>>

NextPaint ==
    \/ Paint_pass_start
    \/ Paint_widget
    \/ Paint_with_z_index
    \/ Paint_take_z_ops
    \/ Paint_replay
    \/ Paint_pass_return

SpecPaint == InitSizedBox /\ [][NextPaint]_vars

\* ---------------------------------------------------- events of all kinds
\* the events a test hands to TestHarness::process_event
WindowEvents ==
    {Ev(kind, <<pos>>) : kind \in MouseEvents, pos \in Points}
        \cup {Ev("WindowSize", <<size>>) : size \in Sizes}
        \cup {Ev("MouseLeave", <<>>), Ev("KeyDown", <<>>), Ev("Timer", <<1>>)}

\* TestHarness::process_event(event)
Harness_window_event ==
    /\ \E ev \in WindowEvents : HarnessCall(process_event(ev))
    /\ UNCHANGED <<action_queue, harness>>

NextEvents ==
    \/ Machine
    \/ Harness_window_event
    \/ Widget_set_handled
    \/ Widget_submit_command

SpecEvents == Init /\ [][NextEvents]_vars

\* RuntimeView::new(command_queue, make_view) is called with a command queue
\* in which commands may be waiting
View_new_start ==
    /\ At("new", "start")
    /\ \E existing \in {<<>>, <<Command("COMMAND", "none", <<"Global">>)>>} :
          /\ command_queue' = existing
          /\ pushed' = Serials(existing)
          /\ emitted' = emitted + Len(existing)
    /\ calls' = Goto("pass")
    /\ UNCHANGED <<window, root, wfuel, last_handled, delivered, timer_log, app, action_queue, harness>>
    /\ UNCHANGED <<rxOnlyVars, rt_command_queue, treeVars>>

\* RuntimeView::new: make_view has returned, the runtime's queue is flushed
View_new_return ==
    /\ At("new", "pass")
    /\ command_queue' = flush_commands(command_queue, rt_command_queue)
    /\ pushed' = pushed \o Serials(rt_command_queue)
    /\ rt_command_queue' = <<>>
    /\ calls' = Return
    /\ UNCHANGED <<window, root, wfuel, last_handled, delivered, timer_log, app, action_queue, harness>>
    /\ UNCHANGED <<rxOnlyVars, emitted, treeVars>>

\* the harness building its window around a RuntimeView and driving it
InitView ==
    /\ InitRx
    /\ InitTree
    /\ InitWindow
    /\ calls = <<CallFrame("create_with", "connect", NoEvent), CallFrame("new", "start", NoEvent)>>

NextView ==
    \/ Machine
    \/ View_new_start
    \/ View_new_return
    \/ Widget_update_widget
    \/ Widget_submit_command

SpecView == InitView /\ [][NextView]_vars

\* the platform asking the window to get ready for painting, the widgets
\* asking for animation frames
NextAnim ==
    \/ Machine
    \/ Window_prepare_paint
    \/ Prepare_paint_return
    \/ Widget_request_anim_frame

SpecAnim == Init /\ [][NextAnim]_vars

\* the harness handing events to either dispatcher
InitRender ==
    /\ InitRx
    /\ InitTree
    /\ \E dispatcher \in {"WindowRoot", "RenderRoot"} :
          InitWindowBy("User", "RuntimeView", dispatcher)
    /\ calls = <<CallFrame("create_with", "connect", NoEvent)>>

SpecRender == InitRender /\ [][NextEvents]_vars

\* ======================================================== the claims
\* C1: when a call S.set(v) has run its subscribers, the effects it invoked
\* are exactly the effects whose most recent run read S, each invoked once.
C1_SetReinvokesReaders ==
    \A i \in DOMAIN stack :
        (stack[i].kind = "set" /\ stack[i].todo = <<>>) =>
            /\ Range(stack[i].invoked) = stack[i].expected
            /\ Len(stack[i].invoked) = Cardinality(stack[i].expected)

Mutations == SelectSeq(delivered, LAMBDA c : c.selector = "UPDATE_WIDGET")

Increasing(s) == \A i, j \in DOMAIN s : i < j => s[i] < s[j]

HarnessFns == {"create_with", "process_event", "keyboard_type_chars",
               "process_state_after_event"}

\* C2: mutators queued by update_widget are applied in the order they were
\* queued, only once the pass that queued them has returned (a command is
\* delivered from the harness's drain, never from inside another pass), and
\* none is still waiting when the next external event enters the root widget.
C2_MutatorsAppliedBeforeNextEvent ==
    /\ Increasing(Serials(Mutations))
    /\ \A i \in DOMAIN calls :
          calls[i].ev.kind = "TargetedCommand" =>
              \A j \in 1..(i - 1) : calls[j].fn \in HarnessFns
    /\ \A i \in DOMAIN calls :
          (calls[i].fn = "event" /\ calls[i].pc = "on_event" /\ IsExternal(calls[i].ev))
              => ~calls[i].stale

\* C4: when process_event returns, the command queue is empty and the root
\* widget does not need layout.
C4_SettledAfterProcessEvent ==
    At("process_event", "ret") => (command_queue = <<>> /\ ~root.needs_layout)

\* the command an event call has popped but not yet handed to the root
InFlight ==
    LET fs == {i \in DOMAIN calls : /\ calls[i].ev.kind = "TargetedCommand"
                                    /\ calls[i].pc \in {"start", "deliver"}}
    IN IF fs = {} THEN <<>> ELSE <<calls[CHOOSE i \in fs : TRUE].ev.arg[1].serial>>

\* C5: the drain is a strict FIFO replay: the commands delivered so far, the
\* one being handed over and the ones still queued are, in this order, the
\* commands in the order they were pushed; at most one command is being
\* handled at any time; the loop is left only with an empty queue.
C5_DrainIsFifo ==
    /\ pushed = Serials(delivered) \o InFlight \o Serials(command_queue)
    /\ Cardinality({i \in DOMAIN calls : calls[i].ev.kind = "TargetedCommand"}) <= 1
    /\ At("process_state_after_event", "layout") => command_queue = <<>>

\* three commands were delivered, the third one emitted while the first one
\* was being handled and the second one was waiting in the queue
C5_Witness ==
    /\ Len(delivered) = 3
    /\ delivered[3].cause = delivered[1].serial
    /\ delivered[2].cause # delivered[1].serial
    /\ delivered[2].serial < delivered[3].serial

\* C6: the dispatcher's queue holds the commands in the order in which they
\* were emitted, whichever channel they were emitted through.
C6_EmissionOrderKept == Increasing(Serials(command_queue))

\* the post_event_processing frame on top takes a pending focus request
TakesRequest(kinds) ==
    /\ Post_focus
    /\ CTop.ws.request_focus # None
    /\ CTop.ws.request_focus[1][1] \in kinds

\* the resolved target of the request the step has taken
Resolved == calls'[Len(calls)].new

IndexIn(chain, id) == CHOOSE k \in DOMAIN chain : chain[k] = id

\* C7: with the focused id at index i (from 0) of a focus chain of length n,
\* a Next request resolves to the id at index (i+1) mod n, a Previous request
\* to the id at index (i+n-1) mod n.
C7_FocusCycling ==
    [][(/\ TakesRequest({"Next", "Previous"})
        /\ window.focus # None
        /\ window.focus[1] \in Range(root.focus_chain))
        => LET chain == root.focus_chain
               n == Len(chain)
               i == IndexIn(chain, window.focus[1]) - 1
           IN Resolved = IF CTop.ws.request_focus[1][1] = "Next"
                         THEN Some(chain[((i + 1) % n) + 1])
                         ELSE Some(chain[((i + n - 1) % n) + 1])]_vars

\* a Next request with the last of three chained widgets focused wrapped
\* around to the first one
C7_Witness ==
    /\ At("post_event_processing", "focus_done")
    /\ CTop.req = Some(<<"Next">>)
    /\ Len(root.focus_chain) = 3
    /\ CTop.old = Some(root.focus_chain[3])
    /\ CTop.new = Some(root.focus_chain[1])

\* C8: with nothing focused, or the focused id not in the focus chain, and
\* the chain not empty, a Next request resolves to the first entry of the
\* chain and a Previous request to the last one.
C8_FocusStartsAtEnds ==
    [][(/\ TakesRequest({"Next", "Previous"})
        /\ root.focus_chain # <<>>
        /\ (window.focus = None \/ window.focus[1] \notin Range(root.focus_chain)))
        => Resolved = IF CTop.ws.request_focus[1][1] = "Next"
                      THEN Some(root.focus_chain[1])
                      ELSE Some(root.focus_chain[Len(root.focus_chain)])]_vars

\* C9: taking a focus request consumes it; if its target is the current
\* focus, nothing is dispatched and the window is left as it is; otherwise
\* exactly one RouteFocusChanged{old, new} is dispatched, old the previous
\* focus and new the target, and the focus is the target afterwards.
C9_FocusChangeDispatch ==
    [][/\ TakesRequest({"Resign", "Focus", "Next", "Previous"}) =>
            /\ calls'[Len(calls)].ws.request_focus = None
            /\ window' = window
            /\ IF Resolved = window.focus
               THEN /\ Len(calls') = Len(calls)
                    /\ calls'[Len(calls)].pc = "finish"
               ELSE /\ Len(calls') = Len(calls) + 1
                    /\ calls'[Len(calls')].fn = "lifecycle"
                    /\ calls'[Len(calls')].ev =
                           Ev("RouteFocusChanged", <<window.focus, Resolved>>)
       /\ Post_focus_done =>
            /\ CTop.old # CTop.new
            /\ window'.focus = CTop.new]_vars

\* a widget asked for the focus it already had: the request was taken and
\* nothing was dispatched
C9_Witness ==
    /\ At("post_event_processing", "finish")
    /\ CTop.req # None
    /\ CTop.old = CTop.new
    /\ CTop.old # None
    /\ window.focus = CTop.old

Count(s, x) == Cardinality({i \in DOMAIN s : s[i] = x})

\* the tree as it was built: the pods added since are left out
BuiltChildren ==
    [id \in 1..pods.built |-> SelectSeq(pods.children[id], LAMBDA c : c <= pods.built)]

\* the call process_event(WindowConnected) of create_with has returned
ConnectedProcessed ==
    /\ Len(calls) = 1
    /\ calls[1].fn = "create_with"
    /\ calls[1].pc = "size"

\* WindowConnected is being processed
InConnect ==
    \E i \in DOMAIN calls :
        calls[i].fn = "process_event" /\ calls[i].ev.kind = "WindowConnected"

\* C10: once WindowConnected has been processed, every widget of the tree has
\* received WidgetAdded exactly once, the widgets the tree was built with in
\* pre-order; a later harness call during which no child is added to the
\* tree delivers no WidgetAdded.
C10_WidgetAddedOnce ==
    [][/\ ConnectedProcessed =>
            /\ \A id \in DOMAIN pods.children : Count(pods.added, id) = 1
            /\ SelectSeq(pods.added, LAMBDA id : id <= pods.built)
                  = PreOrder(BuiltChildren, RootId)
       /\ (~InConnect /\ ~pods'.grew) => pods'.added = pods.added]_vars

\* a tree of three pods whose walk is not in the order of the ids, and a
\* fourth pod added while WindowConnected was processed
C10_Witness ==
    /\ ConnectedProcessed
    /\ pods.built = 3
    /\ Len(pods.added) = 4
    /\ pods.added[2] = 3

\* the event of the call was handed to the root widget
Delivered(frame) == frame.fn = "event" /\ frame.pc \in {"on_event", "post", "ret"}

\* every pod the tree was built with has received WidgetAdded
BuiltAdded == \A id \in 1..pods.built : id \in Range(pods.added)

UnknownTimer ==
    /\ At("event", "start")
    /\ CTop.ev.kind = "Timer"
    /\ CTop.ev.arg[1] \notin DOMAIN window.timers

\* C12: a Timer(token) event whose token is not in the window's timers map is
\* dropped: the call returns Handled::No at once, no event reaches a widget,
\* no post-pass bookkeeping runs, and the timers map, the focus, the derived
\* window state, the widgets and the command queues stay as they are; a Timer
\* event never reaches the root widget unrewritten.
C12_UnknownTimerDropped ==
    [][/\ UnknownTimer =>
            /\ calls' = Return
            /\ last_handled' = FALSE
            /\ UNCHANGED <<window, command_queue, rt_command_queue, root,
                           widget_data, pods, delivered, pushed>>
       /\ \A i \in DOMAIN calls : Delivered(calls[i]) => calls[i].ev.kind # "Timer"]_vars

\* a Timer event with a token nobody owned was dropped while the window had
\* another timer registered
C12_Witness ==
    /\ At("process_event", "after")
    /\ CTop.ev.kind = "Timer"
    /\ timer_log # <<>>
    /\ timer_log[Len(timer_log)] = [token |-> CTop.ev.arg[1], owner |-> None]
    /\ window.timers # <<>>

\* C13: dispatch_cmd for a command whose target is Target::Auto hands no event
\* to any window, leaves the command queue and the windows as they are, and
\* returns Handled::No.
C13_AutoTargetDropped ==
    [][(/\ Len(app'.call) = 2
        /\ app'.call[1] = "dispatch_cmd"
        /\ app'.call[2].target = <<"Auto">>) =>
              /\ app'.log = <<>>
              /\ app'.result = FALSE
              /\ app'.command_queue = app.command_queue
              /\ app'.active_windows = app.active_windows
              /\ app'.pending = app.pending
              /\ ~app'.panicked]_vars

\* a command without a target was dispatched with two windows active and a
\* command waiting, right after a call that had handed out events
C13_Witness ==
    /\ app.call = <<"dispatch_cmd", [selector |-> "COMMAND", target |-> <<"Auto">>]>>
    /\ app.active_windows = WindowIds
    /\ app.command_queue # <<>>
    /\ app.log = <<>>

\* C14: a call of Windows::add or Windows::connect that would register a
\* window id that is already pending or already active panics, so no id is
\* ever both pending and active.
C14_DuplicateWindowPanics ==
    [][/\ (/\ Len(app'.call) = 2
           /\ app'.call[1] = "add"
           /\ app'.call[2] \in app.pending \cup app.active_windows) => app'.panicked
       /\ (/\ Len(app'.call) = 2
           /\ app'.call[1] = "connect"
           /\ app'.call[2] \in app.pending \cap app.active_windows) => app'.panicked
       /\ app'.pending \cap app'.active_windows = {}]_vars

\* the place of a follow-up in the order of post_event_processing
Rank(kind) ==
    CASE kind = "RouteWidgetAdded" -> 1
      [] kind = "ParentWindowOrigin" -> 2
      [] kind = "RouteDisabledChanged" -> 3
      [] kind = "BuildFocusChain" -> 4
      [] kind = "RouteFocusChanged" -> 5

\* the run of post_event_processing on top dispatches a follow-up
PostDispatch ==
    /\ calls # <<>>
    /\ CTop.fn = "post_event_processing"
    /\ Len(calls') = Len(calls) + 1

ChecksOrigin == At("post_event_processing", "origin") /\ Post_origin

\* C16: whenever post-pass bookkeeping runs while the root's
\* needs_window_origin flag is set, that run dispatches ParentWindowOrigin.
C16_StaleOriginDispatched ==
    [][(ChecksOrigin /\ root.needs_window_origin) =>
          /\ Len(calls') = Len(calls) + 1
          /\ calls'[Len(calls')].ev.kind = "ParentWindowOrigin"]_vars

\* the commands emitted since the call of do_window_event at calls[j] began
\* that are still queued
QueuedSince(j) ==
    {c \in Range(command_queue) \cup Range(rt_command_queue) : c.serial > calls[j].n}

\* C17: within the dispatch of one external event no layout pass starts while
\* commands resulting from that event are still queued, and no paint pass of
\* the root starts while the root still needs layout; for every event kind
\* and both size policies.
C17_CommandsLayoutPaintOrder ==
    \A i \in DOMAIN calls :
        /\ (calls[i].fn = "layout" /\ calls[i].pc = "start") =>
              \A j \in 1..(i - 1) : calls[j].fn = "do_window_event" => QueuedSince(j) = {}
        /\ (calls[i].fn = "paint_pass" /\ calls[i].pc = "start") => ~root.needs_layout

\* C18: the paint entry point never runs a layout pass itself: no layout
\* pass is entered from do_paint.
C18_PaintRunsNoLayout ==
    \A i \in DOMAIN calls :
        (calls[i].fn = "layout" /\ i > 1) => calls[i - 1].fn # "do_paint"

\* the layout pass on top of the stack picks its constraints in this step
LayoutPicksConstraints == At("layout", "start") /\ calls' # calls

\* root.layout returns to the layout pass on top of the stack in this step
LayoutSizesWindow == At("layout", "pass") /\ calls' # calls

\* the layout frame that has just called the lifecycle pass, after the step
LaidOut == calls'[Len(calls') - 1]

\* C19: root layout uses constraints tight to the current window size under
\* the User policy and unbounded constraints under Content. Under Content the
\* window size becomes the content size plus insets and set_size is requested
\* only when that differs from the current size; under User no step of a
\* layout pass changes the window size. In both cases the root is placed at
\* the origin and a ParentWindowOrigin lifecycle pass follows.
C19_RootLayoutBySizePolicy ==
    [][/\ LayoutPicksConstraints =>
            calls'[Len(calls')].bc =
                Some(IF window.size_policy = "User"
                     THEN [min |-> window.size, max |-> window.size]
                     ELSE [min |-> <<0, 0>>, max |-> <<Infinity, Infinity>>])
       /\ LayoutSizesWindow =>
            /\ Len(calls') = Len(calls) + 1
            /\ calls'[Len(calls')].fn = "lifecycle"
            /\ calls'[Len(calls')].ev.kind = "ParentWindowOrigin"
            /\ root'.origin = Some(<<0, 0>>)
            /\ window.size_policy = "Content" =>
                 LET content == LaidOut.content[1][1]
                     insets  == LaidOut.content[1][2]
                     full    == <<content[1] + insets[1], content[2] + insets[2]>>
                 IN /\ window'.size = full
                    /\ IF window.size = full
                       THEN window'.set_size = window.set_size
                       ELSE window'.set_size = Some(full)
       /\ (window.size_policy = "User" /\ \E i \in DOMAIN calls : calls[i].fn = "layout") =>
            /\ window'.size = window.size
            /\ window'.set_size = window.set_size]_vars

\* a layout pass under the Content policy has grown the window to its content
\* and its insets, has told the handle, and is dispatching ParentWindowOrigin
C19_Witness ==
    /\ Len(calls) >= 2
    /\ calls[Len(calls)].fn = "lifecycle"
    /\ calls[Len(calls)].ev.kind = "ParentWindowOrigin"
    /\ calls[Len(calls) - 1].fn = "layout"
    /\ calls[Len(calls) - 1].bc = Some(UNBOUNDED)
    /\ calls[Len(calls) - 1].content = Some(<<(<<2, 1>>), (<<1, 0>>)>>)
    /\ window.size_policy = "Content"
    /\ window.size = <<3, 1>>
    /\ window.set_size = Some(<<3, 1>>)
    /\ root.origin = Some(ORIGIN)

\* v clamped into [lo, hi]
Clamped(v, lo, hi) == IF v < lo THEN lo ELSE IF v > hi THEN hi ELSE v

\* what the claim says of one axis: the set dimension, the parent's bounds,
\* the child's bounds
AxisAsSet(dimension, parent_min, parent_max, child_min, child_max) ==
    IF dimension # None
    THEN /\ child_min = Clamped(dimension[1], parent_min, parent_max)
         /\ child_max = Clamped(dimension[1], parent_min, parent_max)
    ELSE /\ child_min = parent_min
         /\ child_max = parent_max

\* the parent's constraints loose up to 400 x 400
Loose400 == [min |-> <<0, 0>>, max |-> <<400, 400>>]

\* C20: child_constraints works per axis: a set dimension gives the child a
\* min and max both equal to the set value clamped into the parent's bounds,
\* an unset one passes the parent's bounds through; so the child's
\* constraints lie within the parent's, and the three examples come out as
\* stated.
C20_ChildConstraintsPerAxis ==
    sized_box.child_bc # None =>
        LET bc == sized_box.bc[1]
            child_bc == sized_box.child_bc[1]
        IN /\ \A axis \in {1, 2} :
                /\ AxisAsSet(IF axis = 1 THEN sized_box.width ELSE sized_box.height,
                             bc.min[axis], bc.max[axis],
                             child_bc.min[axis], child_bc.max[axis])
                /\ bc.min[axis] <= child_bc.min[axis]
                /\ child_bc.min[axis] <= child_bc.max[axis]
                /\ child_bc.max[axis] <= bc.max[axis]
           /\ (sized_box.width = Some(200) /\ sized_box.height = None /\ bc = Loose400) =>
                child_bc = [min |-> <<200, 0>>, max |-> <<200, 400>>]
           /\ (sized_box.width = None /\ sized_box.height = Some(200) /\ bc = Loose400) =>
                child_bc = [min |-> <<0, 200>>, max |-> <<400, 200>>]
           /\ (sized_box.width = Some(Infinity) /\ sized_box.height = Some(Infinity)
                 /\ bc = Loose400) =>
                child_bc.min = <<400, 400>>

\* a box made with expand() has been laid out under the loose 400 x 400
\* constraints: both of its dimensions were clamped
C20_Witness ==
    /\ sized_box.width = Some(Infinity)
    /\ sized_box.height = Some(Infinity)
    /\ sized_box.bc = Some(Loose400)
    /\ sized_box.child_bc = Some([min |-> <<400, 400>>, max |-> <<400, 400>>])

\* the serials of the actions waiting in the queue, front first
Waiting == [i \in DOMAIN action_queue |-> action_queue[i].serial]

\* C21: the action queue is consumed at most once per action and in emission
\* order: what pop_action has returned followed by what waits in the queue is
\* every action submitted, in the order of submission; pop_action returns
\* None on an empty queue (so while nothing was emitted) and otherwise the
\* oldest action with its widget id; a click on a Button at the root adds
\* exactly one (ButtonPressed, button id).
C21_ActionsPoppedOnceInOrder ==
    [][/\ LET handed == harness'.popped \o [i \in DOMAIN action_queue' |-> action_queue'[i].serial]
          IN /\ Len(handed) = harness'.submitted
             /\ \A i \in DOMAIN handed : handed[i] = i
       /\ Harness_pop_action =>
            IF action_queue = <<>>
            THEN harness'.last_pop = None /\ action_queue' = <<>>
            ELSE /\ harness'.last_pop = Some(<<action_queue[1].action, action_queue[1].widget_id>>)
                 /\ Len(action_queue') = Len(action_queue) - 1
       /\ (Click_return /\ harness.root_widget = "Button") =>
            /\ harness.submitted = calls[1].n + 1
            /\ action_queue # <<>>
            /\ action_queue[Len(action_queue)].serial = harness.submitted
            /\ action_queue[Len(action_queue)].action = "ButtonPressed"
            /\ action_queue[Len(action_queue)].widget_id = ButtonId]_vars

\* the button was clicked once, pop_action has handed out its ButtonPressed,
\* and the next pop_action has returned None
C21_Witness ==
    /\ harness.root_widget = "Button"
    /\ harness.submitted = 1
    /\ harness.popped = <<1>>
    /\ harness.pops = 1
    /\ harness.last_pop = None
    /\ action_queue = <<>>
    /\ calls = <<>>

\* the signals effect e is subscribed to
SubscribedTo(e) == {k \in DOMAIN signals : e \in signals[k].subscribers}

\* C22: when a run of an effect completes (the first run by create_effect or
\* a re-run by set, and no newer run of the effect has begun meanwhile), the
\* effect is subscribed to exactly the signals its closure read during that
\* run, reads inside untrack aside.
C22_SubscribedToWhatWasRead ==
    [][(Effect_return /\ Top.latest) => SubscribedTo(Top.eff) = lastReads[Top.eff]]_vars

\* f, the closure handed to untrack, is the code running
Untracked == stack # <<>> /\ Top.kind = "untrack"

\* C23: while f runs the current-effect slot is empty and a read made by f
\* returns the value and subscribes nothing, the effect that called untrack
\* included; untrack itself changes no signal and no subscription; when it
\* returns the slot holds what it held at the call, so that a read made
\* afterwards by a current effect is recorded on both sides.
C23_UntrackReadsSubscribeNothing ==
    [][/\ Call_untrack =>
            /\ stack'[Len(stack')].old = current_effect
            /\ current_effect' = None
            /\ signals' = signals /\ effects' = effects
       /\ Untracked => current_effect = None
       /\ (Untracked /\ got' # None) =>
            /\ signals' = signals /\ effects' = effects
            /\ got'[1][2] = signals[got'[1][1]].value
       /\ Untrack_return =>
            /\ current_effect' = Top.old
            /\ signals' = signals /\ effects' = effects
       /\ (got' # None /\ current_effect # None) =>
            /\ current_effect[1] \in signals'[got'[1][1]].subscribers
            /\ got'[1][1] \in effects'[current_effect[1]].observers]_vars

\* f, called by a running effect, has just read a signal and the effect is
\* not subscribed to it
C23_Witness ==
    /\ Untracked
    /\ Top.old # None
    /\ Len(stack) >= 2 /\ stack[Len(stack) - 1].kind = "effect"
    /\ stack[Len(stack) - 1].eff = Top.old[1]
    /\ got # None
    /\ Top.old[1] \notin signals[got[1][1]].subscribers

\* no closure of an effect has started and not yet returned
NoEffectRunning == \A i \in DOMAIN stack : stack[i].kind # "effect"

\* both sides of every subscription agree
BothSides ==
    \A e \in DOMAIN effects, s \in DOMAIN signals :
        e \in signals[s].subscribers <=> s \in effects[e].observers

\* C24: whenever no effect closure is executing, effect e is in signal s's
\* subscriber set exactly when s is among e's observers; a get made then
\* returns the signal's value and creates no subscription.
C24_SubscriptionsAgreeOnBothSides ==
    [][/\ NoEffectRunning => BothSides
       /\ NoEffectRunning' => BothSides'
       /\ (NoEffectRunning /\ got' # None) =>
            /\ got'[1][2] = signals[got'[1][1]].value
            /\ signals' = signals /\ effects' = effects]_vars

\* a signal with a subscriber has just been read from outside every effect
C24_Witness ==
    /\ stack = <<>>
    /\ got # None
    /\ signals[got[1][1]].subscribers # {}
    /\ \E e \in DOMAIN effects : Cardinality(effects[e].observers) = 2

\* the effects whose closure has started and not yet returned
Running == {stack[i].eff : i \in {j \in DOMAIN stack : stack[j].kind = "effect"}}

\* C25: at every moment at most one effect closure is in progress: no
\* effect's closure begins while the closure of another effect has started
\* and not yet returned.
C25_OneEffectClosureAtATime == Cardinality(Running) <= 1

\* this step calls the closure of an effect
ClosureStarts == Len(stack') = Len(stack) + 1 /\ stack'[Len(stack')].kind = "effect"

\* C26: each time an effect is run or re-run, when its closure starts the
\* effect is in no signal's subscriber set, its observers are empty and it
\* is the current effect.
C26_RunStartsWithNoSubscription ==
    [][ClosureStarts =>
          LET e == stack'[Len(stack')].eff IN
            /\ \A k \in DOMAIN signals' : e \notin signals'[k].subscribers
            /\ effects'[e].observers = {}
            /\ current_effect' = Some(e)]_vars

\* set has just re-run a subscriber of its signal: the closure has not read
\* yet and the effect is no longer subscribed to the signal
C26_Witness ==
    /\ Len(stack) >= 2
    /\ Top.kind = "effect"
    /\ stack[Len(stack) - 1].kind = "set"
    /\ Top.eff \in stack[Len(stack) - 1].expected
    /\ lastReads[Top.eff] = {}
    /\ Top.eff \notin signals[stack[Len(stack) - 1].sig].subscribers
    /\ current_effect = Some(Top.eff)

\* the calls of set that have not returned yet, as positions of the call stack
SetsInProgress == {i \in DOMAIN stack : stack[i].kind = "set"}

\* C27: set stores the value before it runs a subscriber, so that as long as
\* the call is in progress the signal holds the value it was given or one
\* written by a later, nested set, and that is what every read of the
\* signal returns; when only the call's own value was written, the signal
\* holds it when the call returns; the effects the call runs are the
\* subscribers the signal had when the value was stored, and the call
\* returns only after all of them were run.
C27_SetStoresThenRunsSubscribers ==
    [][/\ \A i \in SetsInProgress : signals[stack[i].sig].value \in stack[i].written
       /\ got' # None => got'[1][2] = signals[got'[1][1]].value
       /\ \A i \in SetsInProgress :
            i <= Len(stack') =>
                /\ stack'[i].kind = "set" /\ stack'[i].sig = stack[i].sig
                /\ stack'[i].invoked \o stack'[i].todo = stack[i].invoked \o stack[i].todo
       /\ (Len(stack') = Len(stack) + 1 /\ stack'[Len(stack')].kind = "set") =>
            LET c == stack'[Len(stack')] IN
              /\ signals'[c.sig].value \in c.written
              /\ Cardinality(c.written) = 1
              /\ c.invoked = <<>>
              /\ Len(c.todo) = Cardinality(signals[c.sig].subscribers)
              /\ {c.todo[j] : j \in DOMAIN c.todo} = signals[c.sig].subscribers
       /\ Set_return =>
            /\ Top.todo = <<>>
            /\ Cardinality(Top.written) = 1 => signals'[Top.sig].value \in Top.written]_vars

\* an effect re-run by a call of set has just read the signal that was set,
\* and a second subscriber of the call is still to be run
C27_Witness ==
    /\ Len(stack) >= 2
    /\ Top.kind = "effect"
    /\ stack[Len(stack) - 1].kind = "set"
    /\ stack[Len(stack) - 1].invoked = <<Top.eff>>
    /\ stack[Len(stack) - 1].todo # <<>>
    /\ got = Some(<<stack[Len(stack) - 1].sig, signals[stack[Len(stack) - 1].sig].value>>)
    /\ got[1][2] \in stack[Len(stack) - 1].written

\* C28: an updater queued by update_widget::<W> that reaches a widget whose
\* concrete type is not W panics with a message naming W and the type
\* found, and its mutator is not invoked; when the type is W the mutator is
\* invoked, once, on a WidgetMut of that widget.
C28_UpdaterChecksWidgetType ==
    [][/\ Updater_deliver =>
            LET c == Head(updater.queue)
                found == updater.widgets[c.widget_id]
            IN IF found # c.W
               THEN /\ updater'.panic =
                           Some(mismatch_message(type_name(c.W), type_name(found)))
                    /\ type_name(c.W) # type_name(found)
                    /\ updater'.invoked = updater.invoked
               ELSE /\ updater'.panic = None
                    /\ updater'.invoked =
                           Append(updater.invoked, [f |-> c.f, serial |-> c.serial,
                                                    widget_mut |-> <<c.W, c.widget_id>>])
                    /\ \A i \in DOMAIN updater.invoked : updater.invoked[i].serial # c.serial
       /\ updater.panic # None => updater' = updater
       /\ \A i, j \in DOMAIN updater.invoked :
            updater.invoked[i].serial = updater.invoked[j].serial => i = j]_vars

\* one mutator was invoked on a widget of its type, the next updater found a
\* widget of another type and panicked
C28_Witness ==
    /\ Len(updater.invoked) = 1
    /\ updater.invoked[1].widget_mut[1] = updater.widgets[updater.invoked[1].widget_mut[2]]
    /\ updater.panic # None
    /\ updater.panic[1][2] # updater.panic[1][4]
    /\ updater.queue # <<>>

\* C29: a z-op is replayed only once the paint of the tree from the root
\* has returned, no widget is painted after that, and the ops replayed come
\* in non-decreasing z_index, those of equal z_index in the order they were
\* registered; when the pass returns, every op registered during the paint
\* of the tree has been replayed once.
C29_ZOpsReplayedSortedAfterTree ==
    [][/\ Len(paint'.replayed) > Len(paint.replayed) =>
            /\ paint.pc = "replay" /\ paint.painted # <<>>
            /\ paint'.painted = paint.painted
            /\ paint'.replayed = Append(paint.replayed, Head(paint.taken))
       /\ paint.pc = "replay" => paint'.painted = paint.painted
       /\ \A i, j \in DOMAIN paint.replayed :
            i < j =>
                \/ paint.replayed[i].z_index < paint.replayed[j].z_index
                \/ /\ paint.replayed[i].z_index = paint.replayed[j].z_index
                   /\ paint.replayed[i].serial < paint.replayed[j].serial
       /\ Paint_pass_return =>
            {paint.replayed[i].serial : i \in DOMAIN paint.replayed} = 1..paint.in_tree]_vars

\* three ops registered as z 1, z 0, z 0 were replayed as the second, the
\* third, the first
C29_Witness ==
    /\ paint.pc = "replay"
    /\ paint.taken = <<>>
    /\ Len(paint.painted) = 2
    /\ paint.replayed = <<[z_index |-> 0, serial |-> 2], [z_index |-> 0, serial |-> 3],
                          [z_index |-> 1, serial |-> 1]>>

\* the window's derived state is what the event ev leaves behind
DerivedFrom(ev) ==
    CASE ev.kind \in {"MouseDown", "MouseUp", "MouseMove", "Wheel"} ->
            window.last_mouse_pos = Some(ev.arg[1])
      [] ev.kind = "MouseLeave" -> window.last_mouse_pos = None
      [] ev.kind = "WindowSize" -> window.size = ev.arg[1]
      [] OTHER -> TRUE

\* C30: the first step of WindowRoot::event, before the event is handed to
\* the root widget, sets the last mouse position to the position of a
\* MouseDown, MouseUp, MouseMove or Wheel event, to None on MouseLeave, and
\* the window size to the size of a WindowSize event, and changes neither
\* of the two otherwise; the values stand while the event is handled and
\* when it returns, handled or not.
C30_DerivedStateBeforeDelegation ==
    [][/\ At("event", "start") =>
            LET ev == CTop.ev IN
              /\ window'.last_mouse_pos =
                    CASE ev.kind \in {"MouseDown", "MouseUp", "MouseMove", "Wheel"} ->
                            Some(ev.arg[1])
                      [] ev.kind = "MouseLeave" -> None
                      [] OTHER -> window.last_mouse_pos
              /\ window'.size = IF ev.kind = "WindowSize" THEN ev.arg[1] ELSE window.size
              /\ \A i \in DOMAIN calls' : calls'[i].fn = "event" => calls'[i].pc # "on_event"
       /\ \A i \in DOMAIN calls :
            (calls[i].fn = "event" /\ calls[i].pc # "start") => DerivedFrom(calls[i].ev)
       /\ (calls # <<>> /\ CTop.fn = "event" /\ Len(calls') < Len(calls)
             /\ CTop.pc # "start") =>
            /\ DerivedFrom(CTop.ev)'
            /\ window' = window]_vars

\* a Wheel event at a point away from the last position was handled by a
\* widget and is about to return, the window having a size set by an
\* earlier WindowSize event
C30_Witness ==
    /\ calls # <<>>
    /\ CTop.fn = "event"
    /\ CTop.ev = Ev("Wheel", <<<<5, 5>>>>)
    /\ CTop.is_handled
    /\ CTop.pc \notin {"start", "deliver", "on_event"}
    /\ window.last_mouse_pos = Some(<<5, 5>>)
    /\ window.size = <<1, 1>>

\* C31: the event pass of either dispatcher reports the event handled
\* exactly when a widget marked it handled during the pass.
C31_HandledIffMarked ==
    [][At("event", "ret") => last_handled' = CTop.is_handled]_vars

\* the windows the events of the latest dispatch_cmd went to, in order
Tried == [i \in DOMAIN app.log |-> app.log[i].window]

\* C32: dispatch_cmd hands a command for a widget as TargetedCommand to
\* active windows whose may_contain_widget says yes, and a global command
\* as Command to active windows, one window after the other and none
\* twice, until a window reports the event handled; when none does every
\* such window was tried; the result is Yes exactly when a window handled
\* the event.
C32_DispatchToWindowsUntilHandled ==
    [][(/\ app'.call # <<>>
        /\ app'.call[1] = "dispatch_cmd"
        /\ app'.call[2].target[1] \in {"Widget", "Global"}) =>
          LET cmd == app'.call[2]
              log == app'.log
              may == IF cmd.target[1] = "Widget"
                     THEN app.active_windows \cap app'.contains
                     ELSE app.active_windows
          IN /\ \A i \in DOMAIN log :
                  /\ log[i].window \in may
                  /\ log[i].event =
                        IF cmd.target[1] = "Widget" THEN "TargetedCommand" ELSE "Command"
                  /\ \A j \in DOMAIN log : log[j].window = log[i].window => i = j
                  /\ i < Len(log) => log[i].window \notin app'.handles
             /\ app'.result <=> (log # <<>> /\ log[Len(log)].window \in app'.handles)
             /\ ~app'.result => {log[i].window : i \in DOMAIN log} = may
             /\ app'.active_windows = app.active_windows]_vars

\* a command for a widget was dispatched with two windows active: the one
\* that may contain the widget received it and did not handle it, the other
\* one received nothing
C32_Witness ==
    /\ app.call # <<>>
    /\ app.call[1] = "dispatch_cmd"
    /\ app.call[2].target = <<"Widget", 1>>
    /\ app.active_windows = WindowIds
    /\ Cardinality(app.contains) = 1
    /\ Len(app.log) = 1
    /\ app.log[1].window \in app.contains
    /\ ~app.result

\* C33: dispatch_cmd of CLOSE_WINDOW for an active window hands it
\* WindowCloseRequested first, then WindowDisconnected exactly when the
\* request was not handled, and returns whether the request was handled;
\* a command for a window that is not active is handed to nobody and the
\* result is No.
C33_CloseRequestThenDisconnect ==
    [][(/\ app'.call # <<>>
        /\ app'.call[1] = "dispatch_cmd"
        /\ app'.call[2].target[1] = "Window") =>
          LET cmd == app'.call[2]
              w == cmd.target[2]
              request == [window |-> w, event |-> "WindowCloseRequested"]
              disconnect == [window |-> w, event |-> "WindowDisconnected"]
          IN IF w \notin app.active_windows
             THEN app'.log = <<>> /\ ~app'.result
             ELSE cmd.selector = "CLOSE_WINDOW" =>
                    /\ app'.log = IF w \in app'.handles
                                  THEN <<request>>
                                  ELSE <<request, disconnect>>
                    /\ app'.result <=> w \in app'.handles]_vars

\* the close request of an active window was not handled: the window was
\* told it is disconnected and the result is No
C33_Witness ==
    /\ app.call # <<>>
    /\ app.call[1] = "dispatch_cmd"
    /\ app.call[2] = [selector |-> "CLOSE_WINDOW", target |-> <<"Window", 2>>]
    /\ 2 \in app.active_windows
    /\ app.handles = {}
    /\ Len(app.log) = 2
    /\ app.log[2].event = "WindowDisconnected"
    /\ ~app.result

\* C34: a Timer event for a registered token is handed on as RouteTimer to
\* the token's owner, one for an unknown token is dropped; when the event
\* pass of a RouteTimer returns, the token is taken out of the window's
\* timers before the bookkeeping after the pass begins; and when the event
\* returns the token is registered again exactly if a widget asked for it
\* since, a request made during the event pass being kept with its owner.
C34_TimerRoutedOncePerRegistration ==
    [][/\ (At("event", "start") /\ CTop.ev.kind = "Timer") =>
            LET token == CTop.ev.arg[1] IN
            IF token \in DOMAIN window.timers
            THEN /\ Len(calls') = Len(calls)
                 /\ calls'[Len(calls')].ev = Ev("RouteTimer", <<token, window.timers[token]>>)
                 /\ window'.timers = window.timers
            ELSE calls' = Return /\ window'.timers = window.timers
       /\ (At("event", "on_event") /\ CTop.ev.kind = "RouteTimer") =>
            /\ CTop.ev.arg[1] \in DOMAIN window.timers
            /\ calls'[Len(calls)].pc # "on_event" =>
                  /\ CTop.ev.arg[1] \notin DOMAIN window'.timers
                  /\ calls'[Len(calls)].pc = "post"
       /\ (At("event", "post") /\ CTop.ev.kind = "RouteTimer") =>
            CTop.ev.arg[1] \notin DOMAIN window.timers
       /\ (At("event", "ret") /\ CTop.ev.kind = "RouteTimer") =>
            LET token == CTop.ev.arg[1] IN
            token \in DOMAIN CTop.ws.timers =>
                /\ token \in DOMAIN window.timers
                /\ window.timers[token] = CTop.ws.timers[token]]_vars

\* the timer of token 1 was routed to its owner, who asked for a timer with
\* the same token while handling it: the token is registered when the event
\* returns
C34_Witness ==
    /\ At("event", "ret")
    /\ CTop.ev.kind = "RouteTimer"
    /\ CTop.ev.arg[1] = 1
    /\ 1 \in DOMAIN CTop.ws.timers
    /\ 1 \in DOMAIN window.timers
    /\ timer_log # <<>>
    /\ timer_log[Len(timer_log)].owner # None

\* C35: prepare_paint hands the window an AnimFrame event exactly when the
\* root asked for an animation frame; the interval of the event is 0 when
\* the prepare_paint before did not deliver one; and when prepare_paint has
\* returned, last_anim is set exactly when the call delivered an AnimFrame.
C35_AnimFrameWhenRequested ==
    [][/\ Len(window'.anims) = Len(window.anims) + 1 =>
            LET n == Len(window.anims)
                anim == window'.anims[n + 1]
            IN /\ (anim # None) = root.request_anim
               /\ IF anim # None
                  THEN /\ Len(calls') = 2
                       /\ calls'[2].fn = "event"
                       /\ calls'[2].ev = Ev("AnimFrame", anim)
                       /\ ((n = 0 \/ window.anims[n] = None) => anim = Some(0))
                  ELSE /\ calls' = <<>>
                       /\ window'.last_anim = None
       /\ (calls # <<>> /\ calls' = <<>> /\ calls[1].fn = "prepare_paint") =>
            /\ window.anims[Len(window.anims)] # None
            /\ window'.last_anim # None]_vars

\* three calls of prepare_paint have returned: the first delivered an
\* AnimFrame, the second none, the third one with interval 0 at instant 3
C35_Witness ==
    /\ calls = <<>>
    /\ window.anims = <<Some(0), None, Some(0)>>
    /\ window.last_anim = Some(3)
    /\ ~root.request_anim

\* the window that wakes the application is an active window or unset
ResponsibleIsActive(a) ==
    a.handle_window_id = None \/ a.handle_window_id[1] \in a.active_windows

\* C36: the window responsible for waking the application is always an
\* active window or unset; after remove_window(w) it is not w; and if w was
\* responsible and another active window gives an idle handle, an active
\* window is responsible after the call.
C36_ResponsibleWindowIsActive ==
    [][/\ ResponsibleIsActive(app')
       /\ (app'.call # <<>> /\ app'.call[1] = "remove_window") =>
            LET w == app'.call[2] IN
            /\ app'.handle_window_id # Some(w)
            /\ (app.handle_window_id = Some(w) /\ app'.idle # {}) =>
                   app'.handle_window_id # None]_vars

\* RuntimeView::new, on_event or layout is running the widgets below it
InRuntimeCall ==
    /\ calls # <<>>
    /\ CTop.fn \in {"new", "event", "layout"}
    /\ CTop.pc \in {"on_event", "pass"}

\* C37: when RuntimeView::new, on_event or layout returns, the runtime's
\* local queue is empty and the commands pushed onto it during the call are
\* in the dispatcher's queue, in the order of the pushes, behind the commands
\* that were there; no command is lost and none is there twice.
C37_FlushedAtReturn ==
    [][/\ (rt_command_queue' # <<>>) => InRuntimeCall'
       /\ (rt_command_queue' # rt_command_queue /\ rt_command_queue' # <<>>) =>
            /\ InRuntimeCall
            /\ Len(rt_command_queue') = Len(rt_command_queue) + 1
            /\ SubSeq(rt_command_queue', 1, Len(rt_command_queue)) = rt_command_queue
            /\ rt_command_queue'[Len(rt_command_queue')].serial = emitted'
            /\ emitted' = emitted + 1
       /\ (InRuntimeCall /\ ~InRuntimeCall') =>
            /\ rt_command_queue' = <<>>
            /\ command_queue' = command_queue \o rt_command_queue
       /\ \A i, j \in DOMAIN command_queue' :
            command_queue'[i].serial = command_queue'[j].serial => i = j]_vars

\* RuntimeView::new has returned: the two commands pushed through the runtime
\* are behind the command that was waiting
C37_Witness ==
    /\ Len(calls) = 1
    /\ CTop.fn = "create_with"
    /\ CTop.pc = "connect"
    /\ rt_command_queue = <<>>
    /\ Serials(command_queue) = <<1, 2, 3>>
    /\ command_queue[1].selector = "COMMAND"
    /\ command_queue[2].selector = "UPDATE_WIDGET"
    /\ command_queue[3].selector = "UPDATE_WIDGET"

\* no post_event_processing is in progress
BookkeepingComplete ==
    \A i \in DOMAIN calls : calls[i].fn # "post_event_processing"

\* C38: when the post-pass bookkeeping is complete, the focus of the window
\* is the new target of the RouteFocusChanged event dispatched last, also
\* when a focus change was asked for while RouteFocusChanged was delivered.
C38_FocusIsLastRouted ==
    BookkeepingComplete => window.focus = harness.routed

\* C39: a Next or Previous request resolves to no widget or to a member of
\* the focus chain, and to no widget if the chain is empty; Resign resolves
\* to no widget and Focus(id) to id.
C39_ResolvedWithinChain ==
    [][TakesRequest({"Resign", "Focus", "Next", "Previous"}) =>
          LET req == CTop.ws.request_focus[1] IN
          CASE req[1] = "Resign" -> Resolved = None
            [] req[1] = "Focus" -> Resolved = Some(req[2])
            [] OTHER ->
                 /\ Resolved = None \/ Resolved[1] \in Range(root.focus_chain)
                 /\ root.focus_chain = <<>> => Resolved = None]_vars

\* a Next request taken with a widget focused and the chain empty: no widget
\* gets the focus, RouteFocusChanged is being dispatched
C39_Witness ==
    \E i \in DOMAIN calls :
        /\ calls[i].fn = "post_event_processing"
        /\ calls[i].pc = "focus_done"
        /\ calls[i].req = Some(<<"Next">>)
        /\ calls[i].old # None
        /\ calls[i].new = None
        /\ root.focus_chain = <<>>

\* the step is a call of set by the closure of an effect: the effect and the
\* frame of the call
SetByEffect ==
    /\ stack # <<>>
    /\ Top.kind = "effect"
    /\ Len(stack') = Len(stack) + 1
    /\ stack'[Len(stack')].kind = "set"

\* every call of set runs the effects of its snapshot one after the other,
\* each once, and returns when none is left
C40_SnapshotRunOnce ==
    /\ \A i \in DOMAIN stack :
          (i <= Len(stack') /\ stack[i].kind = "set") =>
              /\ stack'[i].invoked \o stack'[i].todo = stack[i].invoked \o stack[i].todo
              /\ Len(stack'[i].todo) <= Len(stack[i].todo)
              /\ \A j, k \in DOMAIN stack[i].todo : stack[i].todo[j] = stack[i].todo[k] => j = k
    /\ (stack # <<>> /\ Top.kind = "set" /\ Len(stack') < Len(stack)) => Top.todo = <<>>

\* an effect that writes a signal it has not read in this run is not in the
\* snapshot of its write
C40_WriteBeforeRead ==
    (SetByEffect /\ stack'[Len(stack')].sig \notin Top.reads) =>
        Top.eff \notin Range(stack'[Len(stack')].todo)

\* an effect that writes a signal it has read in this run is in the snapshot
\* of its write, and so is run again before the write returns
C40_ReadThenWrite ==
    (SetByEffect /\ stack'[Len(stack')].sig \in Top.reads) =>
        Top.eff \in Range(stack'[Len(stack')].todo)

\* C40: a call of set runs each effect of its snapshot exactly once and
\* returns; an effect that writes a signal before it reads it in the same run
\* is not run again by its own write; an effect that reads a signal and then
\* writes it is run again by its own write, every time.
C40_SetTerminatesOrReenters ==
    [][C40_SnapshotRunOnce /\ C40_WriteBeforeRead /\ C40_ReadThenWrite]_vars

====
